---- MODULE Spec2Model ----
(***************************************************************************)
(* Model of daogan/socksproxy: the encrypted connection wrapper (conn.go,  *)
(* cipher.go), the byte pool, the SOCKS5 front end and the two role        *)
(* handlers.                                                               *)
(*                                                                         *)
(* Three specifications share this module:                                 *)
(*   SpecConn   - two Conn endpoints joined by one ordered byte transport  *)
(*   SpecLocal  - one handleLocal session                                  *)
(*   SpecServer - one handleServer session                                 *)
(***************************************************************************)
EXTENDS Integers, Sequences, FiniteSets, TLC

----------------------------------------------------------------------------
(* Bounds of the model *)

\* number of Write calls of the sender in SpecConn
MaxWrites == 2
\* longest payload handed to one Write call in SpecConn
MaxPayload == 9
\* longest destination buffer handed to one Read call in SpecConn
MaxBuf == 3
\* fixed buffer size of the byte pool (4096 in the source, scaled down)
bufSize == 4
\* capacity of the byte pool (2048 in the source, scaled down)
poolSize == 2
\* number of concurrent callers of the byte pool in SpecPool
MaxCallers == 2
\* number of fixed-size buffers made in SpecPool
MaxAlloc == 3
\* number of concurrent relay directions in SpecUse
MaxTasks == 2
\* number of loop rounds of one relay direction in SpecUse
MaxRounds == 2
\* number of Accept calls of the accept loop in SpecRun
MaxAccepts == 3
\* the idle timeout, in ticks of the clock of SpecRelay (120 s in the source)
timeout == 2
\* number of chunks a peer has sent that the relay has not yet read
MaxQueue == 1

----------------------------------------------------------------------------
(* Program constants *)

\* aes.BlockSize
BlockSize == 16
socksVer5 == 5
cmdConnect == 1
typeIPv4 == 1
typeDomain == 3
typeIPv6 == 4
IPv4len == 4
IPv6len == 16

----------------------------------------------------------------------------
(* Bytes and byte sequences *)

Byte == 0..255

Min(a, b) == IF a < b THEN a ELSE b

Take(s, n) == SubSeq(s, 1, n)

Drop(s, n) == SubSeq(s, n + 1, Len(s))

IsPrefix(a, b) == Len(a) <= Len(b) /\ Take(b, Len(a)) = a

RECURSIVE Xor(_, _)
Xor(a, b) ==
    IF a = 0 THEN b
    ELSE IF b = 0 THEN a
    ELSE (((a % 2) + (b % 2)) % 2) + 2 * Xor(a \div 2, b \div 2)

RECURSIVE Concat(_)
Concat(ss) == IF ss = <<>> THEN <<>> ELSE Head(ss) \o Concat(Tail(ss))

----------------------------------------------------------------------------
(* Cipher engine: cipher.go over crypto/aes and crypto/cipher (CFB)        *)

\* the keys toKey can derive; two passwords give two keys
Keys == {11, 42}

\* Stand-in for the AES block function: a keyed map on 16-byte blocks.
BlockEncrypt(key, blk) ==
    [i \in 1..BlockSize |->
        ((3 * blk[i]) + blk[(i % BlockSize) + 1] + (7 * key) + (5 * i)) % 256]

\* a cipher.Stream that is nil
NilStream ==
    [ready |-> FALSE, key |-> 0, next |-> <<>>, out |-> <<>>,
     outUsed |-> 0, decrypt |-> FALSE]

\* cipher.NewCFBEncrypter / NewCFBDecrypter
NewCFB(key, iv, decrypt) ==
    [ready |-> TRUE, key |-> key, next |-> iv,
     out |-> [i \in 1..BlockSize |-> 0],
     outUsed |-> BlockSize, decrypt |-> decrypt]

\* cfb.XORKeyStream, one byte per unfolding; dst accumulates the output
RECURSIVE XORKeyStream(_, _, _)
XORKeyStream(s, src, dst) ==
    IF src = <<>> THEN [st |-> s, dst |-> dst]
    ELSE LET s1 == IF s.outUsed = BlockSize
                   THEN [s EXCEPT !.out = BlockEncrypt(s.key, s.next),
                                  !.outUsed = 0]
                   ELSE s
             p  == s1.outUsed + 1
             d  == Xor(Head(src), s1.out[p])
             fb == IF s1.decrypt THEN Head(src) ELSE d
         IN  XORKeyStream([s1 EXCEPT !.next[p] = fb, !.outUsed = p],
                          Tail(src), Append(dst, d))

NewCipher(key) == [enc |-> NilStream, dec |-> NilStream, key |-> key]

\* Cipher.initEncrypt: iv is what rand.Reader delivers, randOk whether it does
initEncrypt(c, iv, randOk) ==
    IF ~randOk THEN [cipher |-> c, iv |-> <<>>, err |-> "rand"]
    ELSE [cipher |-> [c EXCEPT !.enc = NewCFB(c.key, iv, FALSE)],
          iv |-> iv, err |-> "none"]

\* initDecrypt refusing only an IV that is too short, and taking the first
\* block of a longer one
initDecrypt_atleast(c, iv) ==
    IF Len(iv) < BlockSize THEN [cipher |-> c, err |-> "ivlen"]
    ELSE [cipher |-> [c EXCEPT !.dec = NewCFB(c.key, Take(iv, BlockSize), TRUE)],
          err |-> "none"]

\* Cipher.initDecrypt
initDecrypt(c, iv) ==
    IF Len(iv) # BlockSize THEN [cipher |-> c, err |-> "ivlen"]
    ELSE [cipher |-> [c EXCEPT !.dec = NewCFB(c.key, iv, TRUE)],
          err |-> "none"]

\* Cipher.encrypt
encrypt(c, src) ==
    LET r == XORKeyStream(c.enc, src, <<>>)
    IN  [cipher |-> [c EXCEPT !.enc = r.st], dst |-> r.dst]

\* Cipher.decrypt
decrypt(c, src) ==
    LET r == XORKeyStream(c.dec, src, <<>>)
    IN  [cipher |-> [c EXCEPT !.dec = r.st], dst |-> r.dst]

\* the IVs rand.Reader may deliver
IVs == { [i \in 1..BlockSize |-> ((s * i) + 3) % 256] : s \in {1, 17} }

----------------------------------------------------------------------------
(* Byte pool: a buffered channel of buffers; a buffer is its identity and  *)
(* its length, the pool is the channel content plus the allocation count.  *)
(* Buffers of another length than bufSize never enter the channel; they    *)
(* are not told apart and all carry the identity 0.                        *)

NewBytePool == [q |-> <<>>, alloc |-> 0]

\* make([]byte, size)
PoolMake(bp, size) ==
    IF size = bufSize
    THEN [b |-> [id |-> bp.alloc + 1, len |-> size],
          pool |-> [bp EXCEPT !.alloc = bp.alloc + 1]]
    ELSE [b |-> [id |-> 0, len |-> size], pool |-> bp]

\* PoolGet that reads the channel's head without receiving it
PoolGet_peek(bp) ==
    IF bp.q # <<>> THEN [b |-> Head(bp.q), pool |-> bp]
    ELSE PoolMake(bp, bufSize)

\* BytePool.Get
PoolGet(bp) ==
    IF bp.q # <<>> THEN [b |-> Head(bp.q), pool |-> [bp EXCEPT !.q = Tail(bp.q)]]
    ELSE PoolMake(bp, bufSize)

\* BytePool.GetAtLeast
PoolGetAtLeast(bp, size) ==
    IF size > bufSize THEN PoolMake(bp, size) ELSE PoolGet(bp)

\* PoolPut without the length test of line 40
PoolPut_nolen(bp, b) ==
    IF Len(bp.q) < poolSize THEN [bp EXCEPT !.q = Append(bp.q, b)]
    ELSE bp

\* BytePool.Put
PoolPut(bp, b) ==
    IF b.len # bufSize THEN bp
    ELSE IF Len(bp.q) < poolSize THEN [bp EXCEPT !.q = Append(bp.q, b)]
    ELSE bp

----------------------------------------------------------------------------
(* Encrypted connection: conn.go, Conn.Write and Conn.Read                 *)

\* ConnWrite with the 'enc == nil' test of line 47 dropped: every call
\* runs initEncrypt and emits a fresh IV
ConnWrite_reinit(c, bp, b, ivRand, randOk) ==
    LET init == initEncrypt(c, ivRand, randOk)
    IN  IF init.err # "none"
        THEN [cipher |-> init.cipher, called |-> FALSE, encBytes |-> <<>>,
              iv |-> <<>>, pool |-> bp, err |-> init.err]
        ELSE LET encLen == Len(init.iv) + Len(b)
                 g      == PoolGetAtLeast(bp, encLen)
                 e      == encrypt(init.cipher, b)
             IN  [cipher |-> e.cipher, called |-> TRUE,
                  encBytes |-> init.iv \o e.dst, iv |-> init.iv,
                  pool |-> PoolPut(g.pool, g.b), err |-> "none"]

\* Conn.Write up to the transport write: the new cipher state, the IV that
\* initEncrypt generated in this call (empty if it was not called), the buffer
\* handed to the transport (encBytes), the pool after checkout and return.
ConnWrite(c, bp, b, ivRand, randOk) ==
    LET init == IF c.enc.ready
                THEN [cipher |-> c, iv |-> <<>>, err |-> "none"]
                ELSE initEncrypt(c, ivRand, randOk)
    IN  IF init.err # "none"
        THEN [cipher |-> init.cipher, called |-> FALSE, encBytes |-> <<>>,
              iv |-> <<>>, pool |-> bp, err |-> init.err]
        ELSE LET encLen == Len(init.iv) + Len(b)
                 g      == PoolGetAtLeast(bp, encLen)
                 e      == encrypt(init.cipher, b)
             IN  [cipher |-> e.cipher, called |-> TRUE,
                  encBytes |-> init.iv \o e.dst, iv |-> init.iv,
                  pool |-> PoolPut(g.pool, g.b), err |-> "none"]

\* the test of line 26 dropped: every Read takes 16 bytes as an IV
ConnReadNeedsIV_always(c) == TRUE

\* Conn.Read, line 26: the IV stage runs while the decrypt stream is nil
ConnReadNeedsIV(c) == ~c.dec.ready

\* Conn.Read line 26: the stage a Read starts in
ReadStage(c) == IF ConnReadNeedsIV(c) THEN "iv" ELSE "data"

\* ConnReadData decrypting encBytes[:len(b)] instead of encBytes[:n]: a short
\* read advances the keystream past the bytes that arrived
ConnReadData_whole(c, bp, blen, data) ==
    LET g   == PoolGetAtLeast(bp, blen)
        pad == data \o [i \in 1..(blen - Len(data)) |-> 0]
        d   == IF Len(data) > 0 THEN decrypt(c, pad)
               ELSE [cipher |-> c, dst |-> <<>>]
    IN  [cipher |-> d.cipher, out |-> Take(d.dst, Len(data)),
         pool |-> PoolPut(g.pool, g.b)]

\* Conn.Read after the IV stage: data are the n bytes the transport read
\* returned into encBytes; the bytes stored into b[:n].
ConnReadData(c, bp, blen, data) ==
    LET g == PoolGetAtLeast(bp, blen)
        d == IF Len(data) > 0 THEN decrypt(c, data)
             ELSE [cipher |-> c, dst |-> <<>>]
    IN  [cipher |-> d.cipher, out |-> d.dst, pool |-> PoolPut(g.pool, g.b)]

\* what a transport write of buf may do: k bytes reach the peer, and the
\* call fails unless all of them did; a failing write is taken to deliver
\* none, one, or all but one of the bytes
WriteOutcomes(buf) == {k \in 0..Len(buf) : k <= 1 \/ k >= Len(buf) - 1}

----------------------------------------------------------------------------
(* Transport reads *)

\* io.ReadAtLeast(conn, buf, min) with len(buf) = cap, on a connection with
\* avail bytes in flight and eof telling whether the peer has stopped
\* sending: the possible results; none while the call still blocks
ReadAtLeast(avail, eof, cap, min) ==
    IF Len(avail) >= min
    THEN {[n |-> k, err |-> "none"] : k \in min..Min(cap, Len(avail))}
    ELSE IF eof
    THEN {[n |-> Len(avail),
           err |-> IF avail = <<>> THEN "EOF" ELSE "UnexpectedEOF"]}
    ELSE {}

\* a Read of at most cap bytes on a plain connection with avail bytes in
\* flight: data (with the end of stream when it arrives together with the
\* last bytes), end of stream, expiry of the read deadline, or the error of
\* a connection closed on this side
ConnReads(avail, eof, closed, cap) ==
    IF closed THEN {[n |-> 0, err |-> "closed"]}
    ELSE IF avail # <<>>
    THEN {[n |-> k, err |-> "none"] : k \in 1..Min(cap, Len(avail))}
         \cup (IF eof /\ Len(avail) <= cap
               THEN {[n |-> Len(avail), err |-> "EOF"]} ELSE {})
    ELSE IF eof THEN {[n |-> 0, err |-> "EOF"]}
    ELSE {[n |-> 0, err |-> "timeout"]}

\* the same for a Read without a deadline: it blocks instead of timing out
BlockingReads(avail, eof, closed, cap) ==
    {r \in ConnReads(avail, eof, closed, cap) : r.err # "timeout"}

----------------------------------------------------------------------------
(* Relay: conn.go, transfer *)

\* the locals of one call of transfer, with the history of what its reads
\* returned and whether one of its writes failed
NewTransfer ==
    [pc |-> "off", n |-> 0, data |-> <<>>, rerr |-> "none", read |-> <<>>,
     werr |-> FALSE, buf |-> <<>>]

\* AfterRead testing the error of the read before its data: what arrives
\* together with an error is dropped
AfterRead_errfirst(n, err) ==
    IF err # "none" THEN "end" ELSE IF n > 0 THEN "write" ELSE "read"

\* transfer lines 70-78: where the loop goes after src.Read returned (n, err)
AfterRead(n, err) ==
    IF n > 0 THEN "write" ELSE IF err # "none" THEN "end" ELSE "read"

\* AfterWrite ignoring the error of dst.Write
AfterWrite_goon(werr, rerr) ==
    IF rerr # "none" THEN "end" ELSE "read"

\* transfer lines 72-78: where the loop goes after dst.Write, werr telling
\* whether it failed, rerr being the error of the read before it
AfterWrite(werr, rerr) ==
    IF werr THEN "end" ELSE IF rerr # "none" THEN "end" ELSE "read"

\* the stage a transfer whose source is the Conn with cipher c enters when
\* its loop goes to pc
SrcStage(pc, c) == IF pc = "read" THEN ReadStage(c) ELSE pc

----------------------------------------------------------------------------
(* SOCKS5 front end: conn.go, handsake and readRawAddr *)

\* len(buf) in handsake
hsBufLen == 258
\* len(buf) in readRawAddr
rqBufLen == 262

\* the method selection reply of handsake
MethodReply == <<socksVer5, 0>>

\* the reply of handleLocal, line 220
SuccessReply == <<socksVer5, 0, 0, 1, 0, 0, 0, 0, 0, 0>>

\* Handsake without the length test of line 138
Handsake_nolen(r, buf) ==
    IF r.err # "none" THEN r.err
    ELSE IF buf[1] # socksVer5 THEN "version"
    ELSE "none"

\* handsake, lines 131-140: r is the result of ReadAtLeast, buf the bytes read
Handsake(r, buf) ==
    IF r.err # "none" THEN r.err
    ELSE IF buf[1] # socksVer5 THEN "version"
    ELSE IF r.n # buf[2] + 2 THEN "header"
    ELSE "none"

\* readRawAddr, lines 179-190: reqLen, -1 for an unknown address type
ReqLen(buf) ==
    IF buf[4] = typeIPv4 THEN 4 + IPv4len + 2
    ELSE IF buf[4] = typeIPv6 THEN 4 + IPv6len + 2
    ELSE IF buf[4] = typeDomain THEN 4 + 1 + 2 + buf[5]
    ELSE -1

\* ReadRawAddr returning buf[4:reqLen], without the type tag
ReadRawAddr_notag(r, buf) ==
    IF r.err # "none" THEN [addr |-> <<>>, err |-> r.err]
    ELSE IF buf[1] # socksVer5 THEN [addr |-> <<>>, err |-> "version"]
    ELSE IF buf[2] # cmdConnect THEN [addr |-> <<>>, err |-> "command"]
    ELSE IF ReqLen(buf) = -1 THEN [addr |-> <<>>, err |-> "addrtype"]
    ELSE IF r.n # ReqLen(buf) THEN [addr |-> <<>>, err |-> "header"]
    ELSE [addr |-> SubSeq(buf, 5, ReqLen(buf)), err |-> "none"]

\* ReadRawAddr testing the address type before the command
ReadRawAddr_typefirst(r, buf) ==
    IF r.err # "none" THEN [addr |-> <<>>, err |-> r.err]
    ELSE IF buf[1] # socksVer5 THEN [addr |-> <<>>, err |-> "version"]
    ELSE IF ReqLen(buf) = -1 THEN [addr |-> <<>>, err |-> "addrtype"]
    ELSE IF buf[2] # cmdConnect THEN [addr |-> <<>>, err |-> "command"]
    ELSE IF r.n # ReqLen(buf) THEN [addr |-> <<>>, err |-> "header"]
    ELSE [addr |-> SubSeq(buf, 4, ReqLen(buf)), err |-> "none"]

\* readRawAddr, lines 168-197: r is the result of ReadAtLeast, buf the bytes
\* read; addr is empty where the source returns nil
ReadRawAddr(r, buf) ==
    IF r.err # "none" THEN [addr |-> <<>>, err |-> r.err]
    ELSE IF buf[1] # socksVer5 THEN [addr |-> <<>>, err |-> "version"]
    ELSE IF buf[2] # cmdConnect THEN [addr |-> <<>>, err |-> "command"]
    ELSE IF ReqLen(buf) = -1 THEN [addr |-> <<>>, err |-> "addrtype"]
    ELSE IF r.n # ReqLen(buf) THEN [addr |-> <<>>, err |-> "header"]
    ELSE [addr |-> SubSeq(buf, 4, ReqLen(buf)), err |-> "none"]

\* handleLocal, lines 202-205: where the handler goes after handsake
AfterHandsake(err) == IF err # "none" THEN "done" ELSE "readRawAddr"

\* the return of line 209 dropped: the handler goes on after a parse error
AfterReadRawAddr_goon(err) == "reply"

\* handleLocal, lines 206-210: where the handler goes after readRawAddr
AfterReadRawAddr(err) == IF err # "none" THEN "done" ELSE "reply"

----------------------------------------------------------------------------
(* Address codec: conn.go, readTargetHost *)

\* IP.To4 succeeds on a 16-byte address: ten zero bytes, then ff ff
IsV4Mapped(b) ==
    /\ Len(b) = IPv6len
    /\ \A i \in 1..10 : b[i] = 0
    /\ b[11] = 255 /\ b[12] = 255

\* net.IP.String: the dotted form for 4 bytes and for a mapped 16 bytes, the
\* colon form otherwise; the text is kept as its form and the bytes it shows
IPString(b) ==
    IF Len(b) = IPv4len THEN [form |-> "dotted", bytes |-> b]
    ELSE IF IsV4Mapped(b) THEN [form |-> "dotted", bytes |-> SubSeq(b, 13, 16)]
    ELSE [form |-> "colon", bytes |-> b]

\* string(buf[2:2+n])
NameString(b) == [form |-> "name", bytes |-> b]

\* binary.BigEndian.Uint16
Uint16(b) == (b[1] * 256) + b[2]

\* strconv.Itoa of a non-negative number: its decimal digits
RECURSIVE Itoa(_)
Itoa(n) == IF n < 10 THEN <<n>> ELSE Append(Itoa(n \div 10), n % 10)

\* net.JoinHostPort
JoinHostPort(host, port) == [host |-> host, port |-> port]

\* readTargetHost with the domain range one byte too long
AddrRange_long(buf) ==
    IF buf[1] = typeIPv4 THEN [reqStart |-> 1, reqEnd |-> 1 + IPv4len + 2]
    ELSE IF buf[1] = typeIPv6 THEN [reqStart |-> 1, reqEnd |-> 1 + IPv6len + 2]
    ELSE [reqStart |-> 2, reqEnd |-> 2 + buf[2] + 3]

\* readTargetHost lines 258-267: reqStart and reqEnd (for a domain once the
\* length byte is in buf)
AddrRange(buf) ==
    IF buf[1] = typeIPv4 THEN [reqStart |-> 1, reqEnd |-> 1 + IPv4len + 2]
    ELSE IF buf[1] = typeIPv6 THEN [reqStart |-> 1, reqEnd |-> 1 + IPv6len + 2]
    ELSE [reqStart |-> 2, reqEnd |-> 2 + buf[2] + 2]

\* readTargetHost lines 253-272: after the io.ReadFull of a phase has filled
\* buf, the next io.ReadFull and the number of bytes it wants, the end, or
\* the error
NextReadFull(phase, buf) ==
    IF phase = "type"
    THEN IF buf[1] = typeDomain THEN [phase |-> "len", want |-> 1]
         ELSE IF buf[1] \in {typeIPv4, typeIPv6}
         THEN [phase |-> "rest",
               want |-> AddrRange(buf).reqEnd - AddrRange(buf).reqStart]
         ELSE [phase |-> "addrtype", want |-> 0]
    ELSE IF phase = "len"
    THEN [phase |-> "rest",
          want |-> AddrRange(buf).reqEnd - AddrRange(buf).reqStart]
    ELSE [phase |-> "end", want |-> 0]

\* readTargetHost lines 276-286: the host string
TargetHost(buf) ==
    LET reqEnd == AddrRange(buf).reqEnd
        host   == IF buf[1] = typeIPv4 THEN IPString(SubSeq(buf, 2, 1 + IPv4len))
                  ELSE IF buf[1] = typeIPv6 THEN IPString(SubSeq(buf, 2, 1 + IPv6len))
                  ELSE NameString(SubSeq(buf, 3, 2 + buf[2]))
        port   == Uint16(SubSeq(buf, reqEnd - 1, reqEnd))
    IN  JoinHostPort(host, Itoa(port))

\* io.ReadFull, the error it returns when a Read fails with err after got
\* bytes of the wanted ones
ReadFullErr(got, err) ==
    IF err = "EOF" /\ got # <<>> THEN "UnexpectedEOF" ELSE err

----------------------------------------------------------------------------
(* State *)

VARIABLES
    pool,       \* the process-wide bytePool
    cSnd,       \* SpecConn: the writing Conn and the history of its calls
    cRcv,       \* SpecConn: the reading Conn and the history of its calls
    cWire,      \* SpecConn: bytes written by cSnd and not yet read by cRcv
    lPc,        \* SpecLocal: position of handleLocal
    lCli,       \* SpecLocal: the accepted connection and its client
    lHs,        \* SpecLocal: what handsake read and returned
    lRq,        \* SpecLocal: what readRawAddr read and returned
    lDial,      \* SpecLocal: outcome of net.Dial to the server agent
    lEnc,       \* SpecLocal: the Cipher of encRemote
    lTun,       \* SpecLocal: the dialed connection and the server agent
    lUp,        \* SpecLocal: transfer(encRemote, conn), run inline
    lDown,      \* SpecLocal: transfer(conn, encRemote), run as a goroutine
    sPc,        \* SpecServer: position of handleServer
    sCli,       \* SpecServer: the accepted connection and the local agent
    sEnc,       \* SpecServer: the Cipher of conn
    sRd,        \* SpecServer: the io.ReadFull in progress in readTargetHost
    sHost,      \* SpecServer: what readTargetHost returned
    sDial,      \* SpecServer: outcome of net.Dial to the target
    sTgt,       \* SpecServer: the dialed connection and the target
    sUp,        \* SpecServer: transfer(remote, conn), run inline
    sDown,      \* SpecServer: transfer(conn, remote), run as a goroutine
    pTask,      \* SpecPool, SpecUse: the callers of the bytePool
    pLast,      \* SpecPool, SpecUse: the last call made on the bytePool
    rLoop,      \* SpecRun: the accept loop of run
    rConn,      \* SpecRun: the connections accepted and dialed
    rSess,      \* SpecRun: the handlers dispatched by run
    tCli,       \* SpecRelay: the accepted connection of the session
    tRem,       \* SpecRelay: the dialed connection of the session
    tIn,        \* SpecRelay: the transfer run inline by the handler
    tGo         \* SpecRelay: the transfer run as a goroutine

varsConn == <<cSnd, cRcv, cWire>>

varsLocal == <<lPc, lCli, lHs, lRq, lDial, lEnc, lTun, lUp, lDown>>

varsServer == <<sPc, sCli, sEnc, sRd, sHost, sDial, sTgt, sUp, sDown>>

varsPool == <<pTask, pLast>>

varsRun == <<rLoop, rConn, rSess>>

varsRelay == <<tCli, tRem, tIn, tGo>>

varsAux == <<varsPool, varsRun, varsRelay>>

vars == <<pool, varsConn, varsLocal, varsServer, varsAux>>

\* the state of the specifications that are not running
IdleConn ==
    /\ cSnd = [cipher |-> NewCipher(0)]
    /\ cRcv = [cipher |-> NewCipher(0)]
    /\ cWire = <<>>

IdlePool == pTask = <<>> /\ pLast = <<>>

IdleRun == rLoop = <<>> /\ rConn = <<>> /\ rSess = <<>>

IdleRelay == tCli = <<>> /\ tRem = <<>> /\ tIn = <<>> /\ tGo = <<>>

IdleLocal ==
    /\ lPc = "off"
    /\ lCli = [script |-> <<>>, sent |-> <<>>, in |-> <<>>, eof |-> TRUE,
               out |-> <<>>, closed |-> TRUE]
    /\ lHs = [n |-> 0, buf |-> <<>>, wrote |-> <<>>, err |-> "pending"]
    /\ lRq = [n |-> 0, buf |-> <<>>, addr |-> <<>>, err |-> "pending"]
    /\ lDial = "none"
    /\ lEnc = NewCipher(0)
    /\ lTun = [handed |-> <<>>, out |-> <<>>, script |-> <<>>, in |-> <<>>,
               eof |-> TRUE, closed |-> TRUE, calls |-> 0, werr |-> FALSE]
    /\ lUp = NewTransfer
    /\ lDown = NewTransfer

IdleServer ==
    /\ sPc = "off"
    /\ sCli = [stream |-> [record |-> <<>>, payload |-> <<>>], script |-> <<>>,
               in |-> <<>>, eof |-> TRUE, consumed |-> <<>>, handed |-> <<>>,
               out |-> <<>>, closed |-> TRUE, calls |-> 0, werr |-> FALSE]
    /\ sEnc = NewCipher(0)
    /\ sRd = [phase |-> "type", want |-> 1, got |-> <<>>, buf |-> <<>>,
              stage |-> "iv"]
    /\ sHost = [addr |-> <<>>, used |-> 0, err |-> "pending"]
    /\ sDial = "none"
    /\ sTgt = [script |-> <<>>, in |-> <<>>, eof |-> TRUE, out |-> <<>>,
               closed |-> TRUE]
    /\ sUp = NewTransfer
    /\ sDown = NewTransfer

----------------------------------------------------------------------------
(* SpecConn: one Conn written by a caller, one Conn read by a caller, and  *)
(* the transport between them.  The callers stop at their first error, as  *)
(* transfer, handleLocal and readTargetHost do, and never pass an empty    *)
(* slice.                                                                  *)

Payload(L) == [i \in 1..L |-> ((41 * i) + 7) % 256]

\* a byte of the destination buffer that the Read call has not written
Untouched == 0 - 1

\* the caller's buffer b of length blen as it is handed to Read
FreshBuf(blen) == [i \in 1..blen |-> Untouched]

\* the reading side: its Conn, the Read call in progress with its buffer b,
\* the history of what it took and delivered, and the last direct call of
\* initDecrypt made on its Cipher
NewReader(key) ==
    [cipher |-> NewCipher(key), pc |-> "idle", blen |-> 0, b |-> <<>>,
     consumed |-> <<>>, ivs |-> <<>>, delivered |-> <<>>, err |-> "none",
     direct |-> [len |-> BlockSize, err |-> "none", same |-> TRUE, calls |-> 0]]

PayLens == {1, 2, MaxPayload}

InitConn ==
    /\ pool = NewBytePool
    /\ \E ka \in Keys, kb \in Keys :
        /\ cSnd = [cipher |-> NewCipher(ka), handed |-> <<>>, plain |-> <<>>,
                   ivs |-> <<>>, err |-> "none", closed |-> FALSE, calls |-> 0]
        /\ cRcv = NewReader(kb)
    /\ cWire = <<>>
    /\ IdleLocal /\ IdleServer /\ IdlePool /\ IdleRun /\ IdleRelay

\* the caller calls cSnd.Write(b)
SndWrite ==
    /\ cSnd.err = "none" /\ ~cSnd.closed /\ cSnd.calls < MaxWrites
    /\ \E L \in PayLens, iv \in IVs, randOk \in BOOLEAN :
        LET b == Payload(L)
            w == ConnWrite(cSnd.cipher, pool, b, iv, randOk)
            gen == IF w.iv = <<>> THEN <<>> ELSE <<w.iv>>
        IN  /\ pool' = w.pool
            /\ IF ~w.called
               THEN /\ cSnd' = [cSnd EXCEPT !.cipher = w.cipher, !.err = w.err,
                                            !.calls = @ + 1]
                    /\ cWire' = cWire
               ELSE \E k \in WriteOutcomes(w.encBytes) :
                    /\ cSnd' = [cSnd EXCEPT
                            !.cipher = w.cipher,
                            !.handed = Append(@, w.encBytes),
                            !.plain = @ \o b,
                            !.ivs = @ \o gen,
                            !.err = IF k < Len(w.encBytes) THEN "write" ELSE "none",
                            !.calls = @ + 1]
                    /\ cWire' = cWire \o Take(w.encBytes, k)
    /\ UNCHANGED <<varsAux, cRcv, varsLocal, varsServer>>

\* the caller closes the writing side
SndClose ==
    /\ ~cSnd.closed
    /\ cSnd' = [cSnd EXCEPT !.closed = TRUE]
    /\ UNCHANGED <<varsAux, pool, cRcv, cWire, varsLocal, varsServer>>

\* the caller calls cRcv.Read(b) with len(b) = blen
RcvCall ==
    /\ cRcv.pc = "idle" /\ cRcv.err = "none"
    /\ \E blen \in 1..MaxBuf :
        cRcv' = [cRcv EXCEPT
                    !.pc = IF ConnReadNeedsIV(cRcv.cipher) THEN "iv" ELSE "data",
                    !.blen = blen, !.b = FreshBuf(blen)]
    /\ UNCHANGED <<varsAux, pool, cSnd, cWire, varsLocal, varsServer>>

\* Conn.Read lines 27-33: io.ReadFull of the IV, then initDecrypt
RcvIV ==
    /\ cRcv.pc = "iv"
    /\ \/ /\ Len(cWire) >= BlockSize
          /\ LET iv == Take(cWire, BlockSize)
                 r  == initDecrypt(cRcv.cipher, iv)
             IN  cRcv' = [cRcv EXCEPT
                            !.cipher = r.cipher,
                            !.consumed = @ \o iv,
                            !.ivs = Append(@, iv),
                            !.pc = IF r.err = "none" THEN "data" ELSE "idle",
                            !.err = r.err]
          /\ cWire' = Drop(cWire, BlockSize)
       \/ /\ Len(cWire) < BlockSize /\ cSnd.closed
          /\ cRcv' = [cRcv EXCEPT
                        !.consumed = @ \o cWire,
                        !.pc = "idle",
                        !.err = IF cWire = <<>> THEN "EOF" ELSE "UnexpectedEOF"]
          /\ cWire' = <<>>
    /\ UNCHANGED <<varsAux, pool, cSnd, varsLocal, varsServer>>

\* Conn.Read lines 35-42: the transport read and the decryption
RcvData ==
    /\ cRcv.pc = "data"
    /\ \/ /\ cWire # <<>>
          /\ \E n \in 1..Min(cRcv.blen, Len(cWire)), eof \in BOOLEAN :
                /\ eof => (cSnd.closed /\ n = Len(cWire))
                /\ LET data == Take(cWire, n)
                       r    == ConnReadData(cRcv.cipher, pool, cRcv.blen, data)
                   IN  /\ cRcv' = [cRcv EXCEPT
                                    !.cipher = r.cipher,
                                    !.consumed = @ \o data,
                                    !.delivered = @ \o r.out,
                                    !.b = r.out \o Drop(@, Len(r.out)),
                                    !.pc = "idle",
                                    !.err = IF eof THEN "EOF" ELSE "none"]
                       /\ pool' = r.pool
                /\ cWire' = Drop(cWire, n)
       \/ /\ cWire = <<>> /\ cSnd.closed
          /\ LET r == ConnReadData(cRcv.cipher, pool, cRcv.blen, <<>>)
             IN  /\ cRcv' = [cRcv EXCEPT !.cipher = r.cipher, !.pc = "idle",
                                         !.err = "EOF"]
                 /\ pool' = r.pool
          /\ cWire' = cWire
    /\ UNCHANGED <<varsAux, cSnd, varsLocal, varsServer>>

NextConn == SndWrite \/ SndClose \/ RcvCall \/ RcvIV \/ RcvData

SpecConn == InitConn /\ [][NextConn]_vars

----------------------------------------------------------------------------
(* Claims about the encrypted connection, checked under SpecConn *)

\* the CFB stream of a whole byte sequence under one key and one IV
CFBWhole(key, iv, decr, src) == XORKeyStream(NewCFB(key, iv, decr), src, <<>>).dst

\* C1: across the Write calls of one Conn the IV is generated once and handed
\* to the transport once, as the first 16 bytes of the first transport write
\* and together with the first ciphertext; every byte handed after it is the
\* ciphertext of the payloads under the one keystream started from that IV.
C1_WriteIVOnce ==
    /\ Len(cSnd.ivs) <= 1
    /\ (cSnd.handed = <<>>) <=> (cSnd.ivs = <<>>)
    /\ cSnd.handed # <<>> =>
        /\ Len(cSnd.handed[1]) > BlockSize
        /\ Take(cSnd.handed[1], BlockSize) = cSnd.ivs[1]
        /\ Concat(cSnd.handed) =
             cSnd.ivs[1] \o CFBWhole(cSnd.cipher.key, cSnd.ivs[1], FALSE, cSnd.plain)

C1_Witness ==
    /\ Len(cSnd.handed) = 2
    /\ cSnd.err = "none"
    /\ Len(cSnd.plain) > BlockSize

\* C2: across the Read calls of one Conn the first 16 bytes taken from the
\* transport, and only they, are used as the IV, once; nothing is delivered
\* before the decrypt stream exists, and all later bytes are deciphered as
\* one ciphertext stream.
C2_ReadIVOnce ==
    /\ Len(cRcv.ivs) <= 1
    /\ cRcv.cipher.dec.ready <=> (Len(cRcv.ivs) = 1)
    /\ ~cRcv.cipher.dec.ready => cRcv.delivered = <<>>
    /\ cRcv.cipher.dec.ready =>
        /\ Len(cRcv.consumed) >= BlockSize
        /\ cRcv.ivs[1] = Take(cRcv.consumed, BlockSize)
        /\ cRcv.delivered =
             CFBWhole(cRcv.cipher.key, cRcv.ivs[1], TRUE,
                      Drop(cRcv.consumed, BlockSize))

C2_Witness ==
    /\ Len(cRcv.delivered) > BlockSize
    /\ cRcv.pc = "idle"
    /\ cRcv.err = "none"

\* C3: with the same key at both ends, what the reader's Read calls return
\* is a prefix of what the writer's Write calls were given, and all of it
\* once every write succeeded and every written byte was read.
C3_RoundTrip ==
    cSnd.cipher.key = cRcv.cipher.key =>
        /\ IsPrefix(cRcv.delivered, cSnd.plain)
        /\ (cSnd.err = "none" /\ cWire = <<>>) => cRcv.delivered = cSnd.plain

C3_Witness ==
    /\ cSnd.cipher.key = cRcv.cipher.key
    /\ Len(cSnd.handed) = 2
    /\ Len(cSnd.plain) > BlockSize
    /\ cSnd.err = "none" /\ cWire = <<>>
    /\ cRcv.delivered = cSnd.plain

----------------------------------------------------------------------------
(* SpecDecrypt: a Conn whose peer sends a stream of any length up to an IV *)
(* and a few bytes and then stops, read by a caller that also calls        *)
(* initDecrypt on the Cipher directly, with IVs of any of the lengths      *)
(* IVLens.                                                                 *)

\* the stream the peer sends, cut after L bytes
PeerStream(L) == [i \in 1..L |-> ((13 * i) + 5) % 256]

\* the lengths of the IVs given to initDecrypt directly
IVLens == {0, 1, BlockSize - 1, BlockSize, BlockSize + 1, 2 * BlockSize}

InitDecrypt ==
    /\ pool = NewBytePool
    /\ IdleLocal /\ IdleServer /\ IdlePool /\ IdleRun /\ IdleRelay
    /\ \E k \in Keys, L \in 0..(BlockSize + MaxBuf) :
        /\ cSnd = [cipher |-> NewCipher(k), handed |-> <<PeerStream(L)>>,
                   plain |-> <<>>, ivs |-> <<>>, err |-> "none",
                   closed |-> FALSE, calls |-> 1]
        /\ cRcv = NewReader(k)
        /\ cWire = PeerStream(L)

\* the caller calls c.cipher.initDecrypt(iv) itself, on a Cipher whose
\* decrypt stream is still nil
BeginDecrypt ==
    /\ cRcv.pc = "idle" /\ ConnReadNeedsIV(cRcv.cipher)
    /\ \E L \in IVLens :
        LET r == initDecrypt(cRcv.cipher, PeerStream(L))
        IN  cRcv' = [cRcv EXCEPT
                        !.cipher = r.cipher,
                        !.direct = [len |-> L, err |-> r.err,
                                    same |-> (r.cipher = cRcv.cipher),
                                    calls |-> 1]]
    /\ UNCHANGED <<varsAux, pool, cSnd, cWire, varsLocal, varsServer>>

NextDecrypt == SndClose \/ RcvCall \/ RcvIV \/ RcvData \/ BeginDecrypt

SpecDecrypt == InitDecrypt /\ [][NextDecrypt]_vars

\* a Read call has returned and the decrypt stream is still nil
ReadFailedInit ==
    cRcv.pc = "idle" /\ cRcv.b # <<>> /\ ConnReadNeedsIV(cRcv.cipher)

\* C17: a Read that has returned with the decrypt stream still nil has
\* returned an error, with its destination buffer untouched, the transport
\* having less than a full IV to deliver; from such a transport no Read
\* initialises the stream;
\* initDecrypt fails for every IV length other than 16 and leaves the Cipher
\* as it was, and succeeds for 16.
C17_DecryptInitFails ==
    /\ ReadFailedInit =>
            /\ cRcv.err \in {"EOF", "UnexpectedEOF"}
            /\ cRcv.b = FreshBuf(cRcv.blen)
            /\ cRcv.delivered = <<>>
            /\ Len(cSnd.handed[1]) < BlockSize
    /\ (Len(cSnd.handed[1]) < BlockSize
            /\ ~(cRcv.direct.calls = 1 /\ cRcv.direct.err = "none"))
            => (ConnReadNeedsIV(cRcv.cipher) /\ cRcv.delivered = <<>>)
    /\ cRcv.direct.len # BlockSize =>
            (cRcv.direct.err = "ivlen" /\ cRcv.direct.same)
    /\ cRcv.direct.len = BlockSize =>
            (cRcv.direct.err = "none"
                /\ (cRcv.direct.calls = 1 => ~ConnReadNeedsIV(cRcv.cipher)))

C17_Witness ==
    /\ ReadFailedInit
    /\ cRcv.err = "UnexpectedEOF" /\ Len(cRcv.consumed) = BlockSize - 1
    /\ cRcv.direct.len = BlockSize + 1 /\ cRcv.direct.err = "ivlen"

----------------------------------------------------------------------------
(* SpecLocal: one session of handleLocal.  The client sends a greeting, a  *)
(* request and payload, without waiting for replies, and may stop at any   *)
(* time; the server agent answers on the tunnel with its own IV and        *)
(* ciphertext.                                                             *)

\* greetings a client may send
Greetings ==
    { <<5, 1, 0>>, <<5, 2, 0, 1>>,      \* well formed
      <<4, 1, 0>>,                      \* wrong version
      <<5, 2, 0>>,                      \* method count and length disagree
      <<4, 5, 0>>,                      \* both
      <<5>> }                           \* too short

\* requests a client may send
Requests ==
    { <<5, 1, 0, 1, 127, 0, 0, 1, 31, 144>>,            \* CONNECT 127.0.0.1:8080
      <<5, 1, 0, 3, 2, 97, 98, 0, 80>>,                 \* CONNECT ab:80
      <<5, 1, 0, 4>> \o [i \in 1..IPv6len |-> i] \o <<1, 187>>,  \* CONNECT, IPv6
      <<5, 2, 0, 1, 127, 0, 0, 1, 31, 144>>,            \* BIND
      <<5, 1, 0, 2, 127, 0, 0, 1, 31, 144>>,            \* address type 2
      <<5, 2, 0, 2, 127, 0, 0, 1, 31, 144>>,            \* BIND and type 2
      <<4, 1, 0, 1, 127, 0, 0, 1, 31, 144>>,            \* wrong version
      <<5, 1, 0, 1, 127, 0, 0, 1, 31>>,                 \* IPv4, one byte short
      <<5, 1, 0, 3, 3, 97, 98, 0, 80>>,                 \* domain shorter than its length byte
      <<5, 1, 0, 1>> }                                  \* cut after the type tag

\* the greeting and the request of one client: every greeting with the first
\* request, every request with the first greeting
Scripts ==
    { <<g, <<5, 1, 0, 1, 127, 0, 0, 1, 31, 144>> >> : g \in Greetings }
    \cup { << <<5, 2, 0, 1>>, q >> : q \in Requests }

\* the key of config.Method and config.Password
ConfigKey == CHOOSE k \in Keys : TRUE

\* the payload the client sends after the request
ClientPayload == << <<71, 69, 84>> >>

\* the plaintext the server agent sends back
ServerPlain == <<72, 73>>

\* what the server agent puts on the tunnel: its IV and the ciphertext
ServerScript(key) ==
    LET iv == [i \in 1..BlockSize |-> ((29 * i) + 1) % 256]
        ct == CFBWhole(key, iv, FALSE, ServerPlain)
    IN  << iv \o ct >>

InitLocal ==
    /\ pool = NewBytePool
    /\ IdleConn /\ IdleServer /\ IdlePool /\ IdleRun /\ IdleRelay
    /\ lPc = "handsake"
    /\ \E sc \in Scripts :
        lCli = [script |-> sc \o ClientPayload, sent |-> <<>>,
                in |-> <<>>, eof |-> FALSE, out |-> <<>>, closed |-> FALSE]
    /\ lHs = [n |-> 0, buf |-> <<>>, wrote |-> <<>>, err |-> "pending"]
    /\ lRq = [n |-> 0, buf |-> <<>>, addr |-> <<>>, err |-> "pending"]
    /\ lDial = "none"
    /\ lEnc = NewCipher(ConfigKey)
    /\ lTun = [handed |-> <<>>, out |-> <<>>, script |-> ServerScript(ConfigKey),
               in |-> <<>>, eof |-> FALSE, closed |-> FALSE, calls |-> 0,
               werr |-> FALSE]
    /\ lUp = NewTransfer
    /\ lDown = NewTransfer

\* the client sends its next segment
ClientSend ==
    /\ lCli.script # <<>> /\ ~lCli.eof /\ ~lCli.closed
    /\ lCli' = [lCli EXCEPT !.script = Tail(@), !.in = @ \o Head(lCli.script),
                            !.sent = @ \o Head(lCli.script)]
    /\ UNCHANGED <<varsAux, pool, varsConn, varsServer, lPc, lHs, lRq, lDial, lEnc, lTun, lUp, lDown>>

\* the client stops sending
ClientClose ==
    /\ ~lCli.eof /\ ~lCli.closed
    /\ lCli' = [lCli EXCEPT !.eof = TRUE]
    /\ UNCHANGED <<varsAux, pool, varsConn, varsServer, lPc, lHs, lRq, lDial, lEnc, lTun, lUp, lDown>>

\* handleLocal lines 201-205: handsake(conn), and the return on its error
LHandsake ==
    /\ lPc = "handsake"
    /\ \E r \in ReadAtLeast(lCli.in, lCli.eof, hsBufLen, 2) :
        LET buf == Take(lCli.in, r.n)
            err == Handsake(r, buf)
        IN  \E k \in (IF err = "none" THEN WriteOutcomes(MethodReply) ELSE {0}) :
            LET res == IF err = "none" /\ k < Len(MethodReply) THEN "write" ELSE err
                wr  == IF err = "none" THEN Take(MethodReply, k) ELSE <<>>
            IN  /\ lHs' = [n |-> r.n, buf |-> buf, wrote |-> wr, err |-> res]
                /\ lPc' = AfterHandsake(res)
                /\ lCli' = [lCli EXCEPT !.in = Drop(@, r.n), !.out = @ \o wr,
                                        !.closed = (AfterHandsake(res) = "done")]
    /\ UNCHANGED <<varsAux, pool, varsConn, varsServer, lRq, lDial, lEnc, lTun, lUp, lDown>>

\* handleLocal lines 206-210: readRawAddr(conn), and the return on its error
LReadRawAddr ==
    /\ lPc = "readRawAddr"
    /\ \E r \in ReadAtLeast(lCli.in, lCli.eof, rqBufLen, 5) :
        LET buf == Take(lCli.in, r.n)
            res == ReadRawAddr(r, buf)
        IN  /\ lRq' = [n |-> r.n, buf |-> buf, addr |-> res.addr, err |-> res.err]
            /\ lPc' = AfterReadRawAddr(res.err)
            /\ lCli' = [lCli EXCEPT !.in = Drop(@, r.n),
                                    !.closed = (AfterReadRawAddr(res.err) = "done")]
    /\ UNCHANGED <<varsAux, pool, varsConn, varsServer, lHs, lDial, lEnc, lTun, lUp, lDown>>

\* handleLocal lines 220-222: the success reply
LReply ==
    /\ lPc = "reply"
    /\ \E k \in WriteOutcomes(SuccessReply) :
        /\ lPc' = IF k < Len(SuccessReply) THEN "done" ELSE "dial"
        /\ lCli' = [lCli EXCEPT !.out = @ \o Take(SuccessReply, k),
                                !.closed = (k < Len(SuccessReply))]
    /\ UNCHANGED <<varsAux, pool, varsConn, varsServer, lHs, lRq, lDial, lEnc, lTun, lUp, lDown>>

\* LDial answering a failed dial with a SOCKS failure reply
LDial_errReply ==
    /\ lPc = "dial"
    /\ \E ok \in BOOLEAN :
        /\ lDial' = IF ok THEN "ok" ELSE "fail"
        /\ lPc' = IF ok THEN "writeAddr" ELSE "done"
        /\ lCli' = [lCli EXCEPT
                        !.out = IF ok THEN @ ELSE @ \o <<socksVer5, 1, 0, 1, 0, 0, 0, 0, 0, 0>>,
                        !.closed = ~ok]
    /\ UNCHANGED <<varsAux, pool, varsConn, varsServer, lHs, lRq, lEnc, lTun, lUp, lDown>>

\* LDial starting the goroutine of line 246 right after the dial, before
\* encRemote.Write(tgtAddr) of line 242
LDial_early ==
    /\ lPc = "dial"
    /\ \E ok \in BOOLEAN :
        /\ lDial' = IF ok THEN "ok" ELSE "fail"
        /\ lPc' = IF ok THEN "writeAddr" ELSE "done"
        /\ lCli' = [lCli EXCEPT !.closed = ~ok]
        /\ lDown' = IF ok THEN [lDown EXCEPT !.pc = "get"] ELSE lDown
    /\ UNCHANGED <<varsAux, pool, varsConn, varsServer, lHs, lRq, lEnc, lTun, lUp>>

\* handleLocal lines 224-240: net.Dial to the server agent
LDial ==
    /\ lPc = "dial"
    /\ \E ok \in BOOLEAN :
        /\ lDial' = IF ok THEN "ok" ELSE "fail"
        /\ lPc' = IF ok THEN "writeAddr" ELSE "done"
        /\ lCli' = [lCli EXCEPT !.closed = ~ok]
    /\ UNCHANGED <<varsAux, pool, varsConn, varsServer, lHs, lRq, lEnc, lTun, lUp, lDown>>

\* tgtAddr with the whole request in place of buf[3:reqLen]
tgtAddr_raw == lRq.buf

\* handleLocal line 206: tgtAddr, the address readRawAddr returned
tgtAddr == lRq.addr

\* handleLocal lines 242-247: encRemote.Write(tgtAddr); on success the
\* goroutine is started and the inline transfer checks out its buffer
LWriteAddr ==
    /\ lPc = "writeAddr"
    /\ \E iv \in IVs, randOk \in BOOLEAN :
        LET w == ConnWrite(lEnc, pool, tgtAddr, iv, randOk)
        IN  \E k \in (IF w.called THEN WriteOutcomes(w.encBytes) ELSE {0}) :
            LET ok == w.called /\ k = Len(w.encBytes)
                g  == PoolGet(w.pool)
            IN  /\ lEnc' = w.cipher
                /\ lTun' = [lTun EXCEPT
                              !.handed = IF w.called THEN Append(@, w.encBytes) ELSE @,
                              !.out = @ \o Take(w.encBytes, k),
                              !.closed = ~ok,
                              !.calls = @ + 1, !.werr = ~ok]
                /\ lCli' = [lCli EXCEPT !.closed = ~ok]
                /\ lPc' = IF ok THEN "relay" ELSE "done"
                /\ pool' = IF ok THEN g.pool ELSE w.pool
                /\ lUp' = IF ok THEN [lUp EXCEPT !.pc = "read", !.buf = <<g.b>>]
                          ELSE lUp
                /\ lDown' = IF ok THEN [lDown EXCEPT !.pc = "get"] ELSE lDown
    /\ UNCHANGED <<varsAux, varsConn, varsServer, lHs, lRq, lDial>>

\* the server agent sends its next segment
ServerSend ==
    /\ lDial = "ok" /\ lTun.script # <<>> /\ ~lTun.eof /\ ~lTun.closed
    /\ lTun' = [lTun EXCEPT !.script = Tail(@), !.in = @ \o Head(lTun.script)]
    /\ UNCHANGED <<varsAux, pool, varsConn, varsServer, lPc, lCli, lHs, lRq, lDial, lEnc, lUp, lDown>>

\* the server agent stops sending
ServerClose ==
    /\ lDial = "ok" /\ ~lTun.eof /\ ~lTun.closed
    /\ lTun' = [lTun EXCEPT !.eof = TRUE]
    /\ UNCHANGED <<varsAux, pool, varsConn, varsServer, lPc, lCli, lHs, lRq, lDial, lEnc, lUp, lDown>>

\* transfer(encRemote, conn), lines 69-70: src.Read(buf) on the client
UpRead ==
    /\ lUp.pc = "read"
    /\ \E r \in ConnReads(lCli.in, lCli.eof, lCli.closed, bufSize) :
        /\ lUp' = [lUp EXCEPT !.pc = AfterRead(r.n, r.err), !.n = r.n,
                              !.data = Take(lCli.in, r.n),
                              !.rerr = r.err,
                              !.read = @ \o Take(lCli.in, r.n)]
        /\ lCli' = [lCli EXCEPT !.in = Drop(@, r.n)]
    /\ UNCHANGED <<varsAux, pool, varsConn, varsServer, lPc, lHs, lRq, lDial, lEnc, lTun, lDown>>

\* transfer(encRemote, conn), lines 71-78: dst.Write(buf[0:n]) on encRemote
UpWrite ==
    /\ lUp.pc = "write"
    /\ \E iv \in IVs, randOk \in BOOLEAN :
        LET w == ConnWrite(lEnc, pool, lUp.data, iv, randOk)
        IN  \E k \in (IF w.called THEN WriteOutcomes(w.encBytes) ELSE {0}) :
            LET ok == w.called /\ k = Len(w.encBytes)
            IN  /\ lEnc' = w.cipher
                /\ pool' = w.pool
                /\ lTun' = [lTun EXCEPT
                              !.handed = IF w.called THEN Append(@, w.encBytes) ELSE @,
                              !.out = @ \o Take(w.encBytes, k),
                              !.calls = @ + 1, !.werr = ~ok]
                /\ lUp' = [lUp EXCEPT
                              !.pc = AfterWrite(~ok, lUp.rerr),
                              !.werr = ~ok,
                              !.data = <<>>]
    /\ UNCHANGED <<varsAux, varsConn, varsServer, lPc, lCli, lHs, lRq, lDial, lDown>>

\* UpEnd without the deferred remote.Close() of line 229
UpEnd_leak ==
    /\ lUp.pc = "end"
    /\ pool' = PoolPut(pool, lUp.buf[1])
    /\ lUp' = [lUp EXCEPT !.pc = "done", !.buf = <<>>]
    /\ lPc' = "done"
    /\ lCli' = [lCli EXCEPT !.closed = TRUE]
    /\ UNCHANGED <<varsAux, varsConn, varsServer, lHs, lRq, lDial, lEnc, lDown, lTun>>

\* transfer returns (line 67, 80) and so does handleLocal: the buffer goes
\* back to the pool, remote and conn are closed (lines 201, 229)
UpEnd ==
    /\ lUp.pc = "end"
    /\ pool' = PoolPut(pool, lUp.buf[1])
    /\ lUp' = [lUp EXCEPT !.pc = "done", !.buf = <<>>]
    /\ lPc' = "done"
    /\ lCli' = [lCli EXCEPT !.closed = TRUE]
    /\ lTun' = [lTun EXCEPT !.closed = TRUE]
    /\ UNCHANGED <<varsAux, varsConn, varsServer, lHs, lRq, lDial, lEnc, lDown>>

\* transfer(conn, encRemote), line 66: the goroutine checks out its buffer
DownGet ==
    /\ lDown.pc = "get"
    /\ LET g == PoolGet(pool)
       IN  /\ pool' = g.pool
           /\ lDown' = [lDown EXCEPT !.pc = SrcStage("read", lEnc), !.buf = <<g.b>>]
    /\ UNCHANGED <<varsAux, varsConn, varsServer, lPc, lCli, lHs, lRq, lDial, lEnc, lTun, lUp>>

\* Conn.Read lines 27-33 on encRemote: io.ReadFull of the IV, initDecrypt
DownReadIV ==
    /\ lDown.pc = "iv"
    /\ \/ /\ ~lTun.closed /\ Len(lTun.in) >= BlockSize
          /\ LET r == initDecrypt(lEnc, Take(lTun.in, BlockSize))
             IN  /\ lEnc' = r.cipher
                 /\ lDown' = [lDown EXCEPT
                                !.pc = IF r.err = "none" THEN "data" ELSE "end",
                                !.rerr = r.err]
          /\ lTun' = [lTun EXCEPT !.in = Drop(@, BlockSize)]
       \/ /\ lTun.closed \/ Len(lTun.in) < BlockSize
          /\ lDown' = [lDown EXCEPT
                        !.pc = "end",
                        !.rerr = IF lTun.closed THEN "closed"
                                 ELSE IF ~lTun.eof THEN "timeout"
                                 ELSE IF lTun.in = <<>> THEN "EOF"
                                 ELSE "UnexpectedEOF"]
          /\ lTun' = [lTun EXCEPT !.in = IF lTun.closed THEN @ ELSE <<>>]
          /\ lEnc' = lEnc
    /\ UNCHANGED <<varsAux, pool, varsConn, varsServer, lPc, lCli, lHs, lRq, lDial, lUp>>

\* Conn.Read lines 35-42 on encRemote: the transport read and the decryption
DownReadData ==
    /\ lDown.pc = "data"
    /\ \E r \in ConnReads(lTun.in, lTun.eof, lTun.closed, bufSize) :
        LET d == ConnReadData(lEnc, pool, bufSize, Take(lTun.in, r.n))
        IN  /\ lEnc' = d.cipher
            /\ pool' = d.pool
            /\ lDown' = [lDown EXCEPT !.pc = SrcStage(AfterRead(r.n, r.err), d.cipher),
                                      !.n = r.n,
                                      !.data = d.out, !.rerr = r.err,
                                      !.read = @ \o d.out]
            /\ lTun' = [lTun EXCEPT !.in = Drop(@, r.n)]
    /\ UNCHANGED <<varsAux, varsConn, varsServer, lPc, lCli, lHs, lRq, lDial, lUp>>

\* transfer(conn, encRemote), lines 71-78: dst.Write(buf[0:n]) on the client
DownWrite ==
    /\ lDown.pc = "write"
    /\ \E k \in (IF lCli.closed THEN {0} ELSE WriteOutcomes(lDown.data)) :
        /\ lCli' = [lCli EXCEPT !.out = @ \o Take(lDown.data, k)]
        /\ LET werr == k < Len(lDown.data) \/ lCli.closed
           IN  lDown' = [lDown EXCEPT
                           !.pc = SrcStage(AfterWrite(werr, lDown.rerr), lEnc),
                           !.werr = werr,
                           !.data = <<>>]
    /\ UNCHANGED <<varsAux, pool, varsConn, varsServer, lPc, lHs, lRq, lDial, lEnc, lTun, lUp>>

\* transfer(conn, encRemote) returns: the buffer goes back to the pool
DownEnd ==
    /\ lDown.pc = "end"
    /\ pool' = PoolPut(pool, lDown.buf[1])
    /\ lDown' = [lDown EXCEPT !.pc = "done", !.buf = <<>>]
    /\ UNCHANGED <<varsAux, varsConn, varsServer, lPc, lCli, lHs, lRq, lDial, lEnc, lTun, lUp>>

NextLocal ==
    \/ ClientSend \/ ClientClose \/ ServerSend \/ ServerClose
    \/ LHandsake \/ LReadRawAddr \/ LReply \/ LDial \/ LWriteAddr
    \/ UpRead \/ UpWrite \/ UpEnd
    \/ DownGet \/ DownReadIV \/ DownReadData \/ DownWrite \/ DownEnd

SpecLocal == InitLocal /\ [][NextLocal]_vars

----------------------------------------------------------------------------
(* Claims about the local role, checked under SpecLocal *)

HsDone == lHs.err # "pending"

RqDone == lRq.err # "pending"

\* the greeting read passes the three tests of the claim
GreetingOk == lHs.n >= 2 /\ lHs.buf[1] = 5 /\ lHs.n = 2 + lHs.buf[2]

\* the request length the claims give for the address type of buf
ClaimedLen(buf) ==
    IF buf[4] = 1 THEN 10 ELSE IF buf[4] = 4 THEN 22 ELSE 7 + buf[5]

\* what the client sent after the bytes that handsake and readRawAddr took
PayloadSent == Drop(lCli.sent, lHs.n + lRq.n)

\* all bytes handed to the tunnel, and their decryption under the first 16
TunHanded == Concat(lTun.handed)

TunPlain ==
    CFBWhole(lEnc.key, Take(TunHanded, BlockSize), TRUE, Drop(TunHanded, BlockSize))

\* C4: what the local role hands to the server-agent connection is the IV,
\* then the ciphertext of the address record as parsed from the request,
\* both in the first write, then the ciphertext of the client's payload in
\* the order the client sent it; the wire carries a prefix of that.
C4_TunnelOrder ==
    lTun.handed # <<>> =>
        /\ lRq.err = "none"
        /\ lRq.addr = SubSeq(lRq.buf, 4, lRq.n)
        /\ Take(TunHanded, BlockSize) \in IVs
        /\ Len(lTun.handed[1]) = BlockSize + Len(lRq.addr)
        /\ Take(TunPlain, Len(lRq.addr)) = lRq.addr
        /\ IsPrefix(Drop(TunPlain, Len(lRq.addr)), lUp.read)
        /\ IsPrefix(lUp.read, PayloadSent)
        /\ IsPrefix(lTun.out, TunHanded)

C4_Witness ==
    /\ Len(lTun.handed) = 3
    /\ lRq.addr = <<3, 2, 97, 98, 0, 80>>
    /\ Drop(TunPlain, Len(lRq.addr)) = <<71, 69, 84>>
    /\ lTun.out = TunHanded

\* C6 as stated: the greeting step succeeds and writes {5,0} exactly when at
\* least 2 bytes were read, byte 0 is 5 and the total is 2+N; a wrong
\* version gives the version error, a wrong total the header error, both
\* with nothing written.
C6_Original ==
    HsDone =>
        /\ (lHs.err = "none" /\ lHs.wrote = <<5, 0>>) <=> GreetingOk
        /\ (lHs.n >= 2 /\ lHs.buf[1] # 5) =>
                (lHs.err = "version" /\ lHs.wrote = <<>>)
        /\ (lHs.n >= 2 /\ lHs.n # 2 + lHs.buf[2]) =>
                (lHs.err = "header" /\ lHs.wrote = <<>>)

\* C6, amended: the greeting step succeeds, having written exactly {5,0},
\* exactly when the three tests pass and the write of the reply does not
\* fail; a wrong version gives the version error, a wrong total under the
\* right version the header error, both with nothing written.
C6_Greeting ==
    HsDone =>
        /\ (lHs.err = "none") <=> (GreetingOk /\ lHs.err # "write")
        /\ lHs.err = "none" => lHs.wrote = <<5, 0>>
        /\ lHs.err = "write" =>
                (IsPrefix(lHs.wrote, <<5, 0>>) /\ lHs.wrote # <<5, 0>>)
        /\ (lHs.n >= 2 /\ lHs.buf[1] # 5) =>
                (lHs.err = "version" /\ lHs.wrote = <<>>)
        /\ (lHs.n >= 2 /\ lHs.buf[1] = 5 /\ lHs.n # 2 + lHs.buf[2]) =>
                (lHs.err = "header" /\ lHs.wrote = <<>>)
        /\ lHs.n < 2 => (lHs.err \in {"EOF", "UnexpectedEOF"} /\ lHs.wrote = <<>>)

C6_Witness ==
    /\ lHs.err = "none"
    /\ lHs.buf = <<5, 2, 0, 1>>
    /\ lCli.out = <<5, 0>>

\* C7 as stated: a CONNECT request with address type 1, 3 or 4 parses to
\* bytes 3..end when the bytes read equal the length of its type, and fails
\* with the header error when they differ.
C7_Original ==
    (/\ RqDone /\ lRq.n >= 4
     /\ lRq.buf[1] = 5 /\ lRq.buf[2] = 1
     /\ lRq.buf[4] \in {1, 4} \/ (lRq.buf[4] = 3 /\ lRq.n >= 5)) =>
        /\ lRq.n = ClaimedLen(lRq.buf) =>
                (lRq.err = "none" /\ lRq.addr = SubSeq(lRq.buf, 4, lRq.n))
        /\ lRq.n # ClaimedLen(lRq.buf) => lRq.err = "header"

\* C7, amended: the same, the failure with the header error for reads of at
\* least 5 bytes (a stream that ends before 5 bytes fails with the read
\* error).
C7_RawAddr ==
    (/\ RqDone /\ lRq.n >= 4
     /\ lRq.buf[1] = 5 /\ lRq.buf[2] = 1
     /\ lRq.buf[4] \in {1, 3, 4}) =>
        IF lRq.n >= 5
        THEN /\ lRq.n = ClaimedLen(lRq.buf) =>
                    (lRq.err = "none" /\ lRq.addr = SubSeq(lRq.buf, 4, lRq.n))
             /\ lRq.n # ClaimedLen(lRq.buf) => lRq.err = "header"
        ELSE lRq.err = "UnexpectedEOF"

C7_Witness ==
    /\ lRq.err = "none"
    /\ lRq.buf = <<5, 1, 0, 1, 127, 0, 0, 1, 31, 144>>
    /\ lRq.addr = <<1, 127, 0, 0, 1, 31, 144>>

\* C8 as stated: a SOCKS5 request with a command other than CONNECT fails
\* with the command error, one with an address type outside {1,3,4} with the
\* address-type error, and neither returns an address.
C8_Original ==
    (RqDone /\ lRq.n >= 4 /\ lRq.buf[1] = 5) =>
        /\ lRq.buf[2] # 1 => (lRq.err = "command" /\ lRq.addr = <<>>)
        /\ lRq.buf[4] \notin {1, 3, 4} => (lRq.err = "addrtype" /\ lRq.addr = <<>>)

\* C8, amended: of a SOCKS5 request read with at least 5 bytes, a command
\* other than CONNECT fails with the command error whatever the address
\* type, and a CONNECT with an address type outside {1,3,4} fails with the
\* address-type error; neither returns an address.
C8_Unsupported ==
    (RqDone /\ lRq.n >= 5 /\ lRq.buf[1] = 5) =>
        /\ lRq.buf[2] # 1 => (lRq.err = "command" /\ lRq.addr = <<>>)
        /\ (lRq.buf[2] = 1 /\ lRq.buf[4] \notin {1, 3, 4}) =>
                (lRq.err = "addrtype" /\ lRq.addr = <<>>)

C8_Witness ==
    /\ lRq.err = "command"
    /\ lRq.buf[2] = 2 /\ lRq.buf[4] = 2
    /\ lPc = "done"

\* the session ended at encRemote.Write(tgtAddr)
AddrWriteFailed == lDial = "ok" /\ lPc = "done" /\ lUp.pc = "off"

\* C9: the success reply is completely written before the dial is
\* attempted; the client is sent nothing but the two replies and, after
\* them, relayed bytes; after a failed dial or a failed first tunnel write
\* the client has the two replies and a closed connection.
C9_ReplyBeforeDial ==
    /\ lDial # "none" =>
            Take(lCli.out, 12) = MethodReply \o SuccessReply
    /\ lRq.err = "none" =>
            IsPrefix(lCli.out, MethodReply \o SuccessReply \o ServerPlain)
    /\ (lDial = "fail" \/ AddrWriteFailed) =>
            (lCli.out = MethodReply \o SuccessReply /\ lCli.closed /\ lPc = "done")

C9_Witness ==
    /\ lDial = "fail"
    /\ lCli.closed
    /\ lCli.out = <<5, 0, 5, 0, 0, 1, 0, 0, 0, 0, 0, 0>>

\* C10: after a version, header, command or address-type error the handler
\* has returned and closed the client connection, and nothing of the later
\* steps has happened: no reply after the failing step, no dial, no tunnel
\* write, no relay.
C10_TerminalOnError ==
    /\ lHs.err \in {"version", "header"} =>
        /\ lPc = "done" /\ lCli.closed
        /\ lCli.out = <<>> /\ lRq.err = "pending"
        /\ lDial = "none" /\ lTun.handed = <<>> /\ lTun.out = <<>>
        /\ lUp.pc = "off" /\ lDown.pc = "off"
    /\ lRq.err \in {"version", "command", "addrtype", "header"} =>
        /\ lPc = "done" /\ lCli.closed
        /\ lCli.out = MethodReply
        /\ lDial = "none" /\ lTun.handed = <<>> /\ lTun.out = <<>>
        /\ lUp.pc = "off" /\ lDown.pc = "off"

C10_Witness ==
    /\ lRq.err = "addrtype"
    /\ lPc = "done" /\ lCli.closed
    /\ lCli.script = <<>>

----------------------------------------------------------------------------
(* SpecServer: one session of handleServer.  The local agent sends its IV, *)
(* the encrypted address record and encrypted payload, and may stop at any *)
(* time; the target answers in plaintext.                                  *)

\* what a local agent may send as its first plaintext, with the payload
\* that follows it
AgentStreams ==
    { [record |-> <<1, 127, 0, 0, 1, 31, 144>>, payload |-> <<71, 69>>],
      [record |-> <<3, 2, 97, 98, 0, 80>>, payload |-> <<71, 69>>],
      [record |-> <<4>> \o [i \in 1..IPv6len |-> i] \o <<1, 187>>,
       payload |-> <<71, 69>>],
      [record |-> <<4, 0, 0, 0, 0, 0, 0, 0, 0, 0, 0, 255, 255, 10, 0, 0, 1, 0, 80>>,
       payload |-> <<71, 69>>],
      [record |-> <<2, 127, 0, 0, 1, 31, 144>>, payload |-> <<71, 69>>],
      [record |-> <<1, 127, 0>>, payload |-> <<>>],
      [record |-> <<3, 2, 97>>, payload |-> <<>>] }

\* the segments the local agent puts on the wire for such a stream: the IV
\* with the ciphertext of the record, then the ciphertext of the payload
AgentScript(key, st) ==
    LET iv == [i \in 1..BlockSize |-> ((29 * i) + 1) % 256]
        ct == CFBWhole(key, iv, FALSE, st.record \o st.payload)
    IN  IF st.payload = <<>> THEN << iv \o ct >>
        ELSE << iv \o Take(ct, Len(st.record)), Drop(ct, Len(st.record)) >>

\* the plaintext the target sends back
TargetPlain == <<72, 73>>

InitServer ==
    /\ pool = NewBytePool
    /\ IdleConn /\ IdleLocal /\ IdlePool /\ IdleRun /\ IdleRelay
    /\ sPc = "readTargetHost"
    /\ \E st \in AgentStreams :
        sCli = [stream |-> st, script |-> AgentScript(ConfigKey, st),
                in |-> <<>>, eof |-> FALSE, consumed |-> <<>>,
                handed |-> <<>>, out |-> <<>>, closed |-> FALSE, calls |-> 0,
                werr |-> FALSE]
    /\ sEnc = NewCipher(ConfigKey)
    /\ sRd = [phase |-> "type", want |-> 1, got |-> <<>>, buf |-> <<>>,
              stage |-> ReadStage(NewCipher(ConfigKey))]
    /\ sHost = [addr |-> <<>>, used |-> 0, err |-> "pending"]
    /\ sDial = "none"
    /\ sTgt = [script |-> <<TargetPlain>>, in |-> <<>>, eof |-> FALSE,
               out |-> <<>>, closed |-> FALSE]
    /\ sUp = NewTransfer
    /\ sDown = NewTransfer

\* the local agent sends its next segment
AgentSend ==
    /\ sCli.script # <<>> /\ ~sCli.eof /\ ~sCli.closed
    /\ sCli' = [sCli EXCEPT !.script = Tail(@), !.in = @ \o Head(sCli.script)]
    /\ UNCHANGED <<varsAux, pool, varsConn, varsLocal, sPc, sEnc, sRd, sHost, sDial,
                   sTgt, sUp, sDown>>

\* the local agent stops sending
AgentClose ==
    /\ ~sCli.eof /\ ~sCli.closed
    /\ sCli' = [sCli EXCEPT !.eof = TRUE]
    /\ UNCHANGED <<varsAux, pool, varsConn, varsLocal, sPc, sEnc, sRd, sHost, sDial,
                   sTgt, sUp, sDown>>

\* Conn.Read lines 27-33 under readTargetHost: io.ReadFull of the IV and
\* initDecrypt; on failure readTargetHost and handleServer return
SReadIV ==
    /\ sPc = "readTargetHost" /\ sRd.stage = "iv"
    /\ \/ /\ Len(sCli.in) >= BlockSize
          /\ LET iv == Take(sCli.in, BlockSize)
                 r  == initDecrypt(sEnc, iv)
             IN  /\ sEnc' = r.cipher
                 /\ sCli' = [sCli EXCEPT !.in = Drop(@, BlockSize),
                                         !.consumed = @ \o iv,
                                         !.closed = (r.err # "none")]
                 /\ sRd' = [sRd EXCEPT !.stage = "data"]
                 /\ sHost' = [sHost EXCEPT
                                !.used = IF r.err = "none" THEN @
                                         ELSE Len(sCli.consumed) + BlockSize,
                                !.err = IF r.err = "none" THEN @
                                        ELSE ReadFullErr(sRd.got, r.err)]
                 /\ sPc' = IF r.err = "none" THEN sPc ELSE "done"
       \/ /\ Len(sCli.in) < BlockSize /\ sCli.eof
          /\ sCli' = [sCli EXCEPT !.in = <<>>, !.consumed = @ \o sCli.in,
                                  !.closed = TRUE]
          /\ sHost' = [sHost EXCEPT
                        !.used = Len(sCli.consumed) + Len(sCli.in),
                        !.err = ReadFullErr(sRd.got,
                                    IF sCli.in = <<>> THEN "EOF"
                                    ELSE "UnexpectedEOF")]
          /\ sPc' = "done"
          /\ UNCHANGED <<varsAux, sEnc, sRd>>
    /\ UNCHANGED <<varsAux, pool, varsConn, varsLocal, sDial, sTgt, sUp, sDown>>

\* Conn.Read lines 35-42 under readTargetHost: one Read of the io.ReadFull
\* in progress, and what readTargetHost and handleServer do when that
\* io.ReadFull ends
SReadData ==
    /\ sPc = "readTargetHost" /\ sRd.stage = "data"
    /\ LET blen == sRd.want - Len(sRd.got)
       IN  \E r \in BlockingReads(sCli.in, sCli.eof, FALSE, blen) :
           LET data == Take(sCli.in, r.n)
               d    == ConnReadData(sEnc, pool, blen, data)
               got1 == sRd.got \o d.out
               buf1 == sRd.buf \o got1
               nx   == NextReadFull(sRd.phase, buf1)
               full == Len(got1) >= sRd.want
               fail == IF full THEN IF nx.phase = "addrtype" THEN "addrtype"
                                    ELSE "none"
                       ELSE IF r.err # "none" THEN ReadFullErr(got1, r.err)
                       ELSE "none"
           IN  /\ sEnc' = d.cipher
               /\ pool' = d.pool
               /\ sCli' = [sCli EXCEPT !.in = Drop(@, r.n),
                                       !.consumed = @ \o data,
                                       !.closed = (fail # "none")]
               /\ sRd' = IF full
                         THEN [phase |-> nx.phase, want |-> nx.want,
                               got |-> <<>>, buf |-> buf1,
                               stage |-> ReadStage(d.cipher)]
                         ELSE [sRd EXCEPT !.got = got1,
                                          !.stage = ReadStage(d.cipher)]
               /\ sHost' = IF fail # "none"
                           THEN [addr |-> <<>>, used |-> Len(sCli.consumed) + r.n,
                                 err |-> fail]
                           ELSE IF full /\ nx.phase = "end"
                           THEN [addr |-> TargetHost(buf1),
                                 used |-> Len(sCli.consumed) + r.n, err |-> "none"]
                           ELSE sHost
               /\ sPc' = IF fail # "none" THEN "done"
                         ELSE IF full /\ nx.phase = "end" THEN "dial"
                         ELSE sPc
    /\ UNCHANGED <<varsAux, varsConn, varsLocal, sDial, sTgt, sUp, sDown>>

\* handleServer lines 297-305: net.Dial to the target; on success the
\* goroutine is started and the inline transfer checks out its buffer
SDial ==
    /\ sPc = "dial"
    /\ \E ok \in BOOLEAN :
        LET g == PoolGet(pool)
        IN  /\ sDial' = IF ok THEN "ok" ELSE "fail"
            /\ sPc' = IF ok THEN "relay" ELSE "done"
            /\ sCli' = [sCli EXCEPT !.closed = ~ok]
            /\ pool' = IF ok THEN g.pool ELSE pool
            /\ sUp' = IF ok THEN [sUp EXCEPT !.pc = "read", !.buf = <<g.b>>]
                      ELSE sUp
            /\ sDown' = IF ok THEN [sDown EXCEPT !.pc = "get"] ELSE sDown
    /\ UNCHANGED <<varsAux, varsConn, varsLocal, sEnc, sRd, sHost, sTgt>>

\* the target sends its next segment
TargetSend ==
    /\ sDial = "ok" /\ sTgt.script # <<>> /\ ~sTgt.eof /\ ~sTgt.closed
    /\ sTgt' = [sTgt EXCEPT !.script = Tail(@), !.in = @ \o Head(sTgt.script)]
    /\ UNCHANGED <<varsAux, pool, varsConn, varsLocal, sPc, sCli, sEnc, sRd, sHost,
                   sDial, sUp, sDown>>

\* the target stops sending
TargetClose ==
    /\ sDial = "ok" /\ ~sTgt.eof /\ ~sTgt.closed
    /\ sTgt' = [sTgt EXCEPT !.eof = TRUE]
    /\ UNCHANGED <<varsAux, pool, varsConn, varsLocal, sPc, sCli, sEnc, sRd, sHost,
                   sDial, sUp, sDown>>

\* transfer(remote, conn), lines 69-70: src.Read(buf) on conn; its decrypt
\* stream exists since readTargetHost, so Conn.Read is at line 35
SUpRead ==
    /\ sUp.pc = "read" /\ ~ConnReadNeedsIV(sEnc)
    /\ \E r \in ConnReads(sCli.in, sCli.eof, sCli.closed, bufSize) :
        LET data == Take(sCli.in, r.n)
            d    == ConnReadData(sEnc, pool, bufSize, data)
        IN  /\ sEnc' = d.cipher
            /\ pool' = d.pool
            /\ sUp' = [sUp EXCEPT !.pc = AfterRead(r.n, r.err), !.n = r.n,
                                  !.data = d.out, !.rerr = r.err,
                                  !.read = @ \o d.out]
            /\ sCli' = [sCli EXCEPT !.in = Drop(@, r.n), !.consumed = @ \o data]
    /\ UNCHANGED <<varsAux, varsConn, varsLocal, sPc, sRd, sHost, sDial, sTgt, sDown>>

\* transfer(remote, conn), lines 71-78: dst.Write(buf[0:n]) on the target
SUpWrite ==
    /\ sUp.pc = "write"
    /\ \E k \in WriteOutcomes(sUp.data) :
        /\ sTgt' = [sTgt EXCEPT !.out = @ \o Take(sUp.data, k)]
        /\ sUp' = [sUp EXCEPT
                     !.pc = AfterWrite(k < Len(sUp.data), sUp.rerr),
                     !.werr = k < Len(sUp.data),
                     !.data = <<>>]
    /\ UNCHANGED <<varsAux, pool, varsConn, varsLocal, sPc, sCli, sEnc, sRd, sHost,
                   sDial, sDown>>

\* transfer returns and so does handleServer: the buffer goes back to the
\* pool, remote and c are closed (lines 290, 302)
SUpEnd ==
    /\ sUp.pc = "end"
    /\ pool' = PoolPut(pool, sUp.buf[1])
    /\ sUp' = [sUp EXCEPT !.pc = "done", !.buf = <<>>]
    /\ sPc' = "done"
    /\ sCli' = [sCli EXCEPT !.closed = TRUE]
    /\ sTgt' = [sTgt EXCEPT !.closed = TRUE]
    /\ UNCHANGED <<varsAux, varsConn, varsLocal, sEnc, sRd, sHost, sDial, sDown>>

\* transfer(conn, remote), line 66: the goroutine checks out its buffer
SDownGet ==
    /\ sDown.pc = "get"
    /\ LET g == PoolGet(pool)
       IN  /\ pool' = g.pool
           /\ sDown' = [sDown EXCEPT !.pc = "read", !.buf = <<g.b>>]
    /\ UNCHANGED <<varsAux, varsConn, varsLocal, sPc, sCli, sEnc, sRd, sHost, sDial,
                   sTgt, sUp>>

\* transfer(conn, remote), lines 69-70: src.Read(buf) on the target
SDownRead ==
    /\ sDown.pc = "read"
    /\ \E r \in ConnReads(sTgt.in, sTgt.eof, sTgt.closed, bufSize) :
        /\ sDown' = [sDown EXCEPT !.pc = AfterRead(r.n, r.err), !.n = r.n,
                                  !.data = Take(sTgt.in, r.n), !.rerr = r.err,
                                  !.read = @ \o Take(sTgt.in, r.n)]
        /\ sTgt' = [sTgt EXCEPT !.in = Drop(@, r.n)]
    /\ UNCHANGED <<varsAux, pool, varsConn, varsLocal, sPc, sCli, sEnc, sRd, sHost,
                   sDial, sUp>>

\* transfer(conn, remote), lines 71-78: dst.Write(buf[0:n]) on conn
SDownWrite ==
    /\ sDown.pc = "write"
    /\ \E iv \in IVs, randOk \in BOOLEAN :
        LET w == ConnWrite(sEnc, pool, sDown.data, iv, randOk)
        IN  \E k \in (IF w.called /\ ~sCli.closed
                      THEN WriteOutcomes(w.encBytes) ELSE {0}) :
            LET ok == w.called /\ ~sCli.closed /\ k = Len(w.encBytes)
            IN  /\ sEnc' = w.cipher
                /\ pool' = w.pool
                /\ sCli' = [sCli EXCEPT
                              !.handed = IF w.called THEN Append(@, w.encBytes) ELSE @,
                              !.out = @ \o Take(w.encBytes, k),
                              !.calls = @ + 1, !.werr = ~ok]
                /\ sDown' = [sDown EXCEPT
                               !.pc = AfterWrite(~ok, sDown.rerr),
                               !.werr = ~ok,
                               !.data = <<>>]
    /\ UNCHANGED <<varsAux, varsConn, varsLocal, sPc, sRd, sHost, sDial, sTgt, sUp>>

\* transfer(conn, remote) returns: the buffer goes back to the pool
SDownEnd ==
    /\ sDown.pc = "end"
    /\ pool' = PoolPut(pool, sDown.buf[1])
    /\ sDown' = [sDown EXCEPT !.pc = "done", !.buf = <<>>]
    /\ UNCHANGED <<varsAux, varsConn, varsLocal, sPc, sCli, sEnc, sRd, sHost, sDial,
                   sTgt, sUp>>

NextServer ==
    \/ AgentSend \/ AgentClose \/ TargetSend \/ TargetClose
    \/ SReadIV \/ SReadData \/ SDial
    \/ SUpRead \/ SUpWrite \/ SUpEnd
    \/ SDownGet \/ SDownRead \/ SDownWrite \/ SDownEnd

SpecServer == InitServer /\ [][NextServer]_vars

----------------------------------------------------------------------------
(* SpecMain: one session of the role that main selects from the            *)
(* configuration, handleLocal or handleServer.                             *)

InitMain == InitLocal \/ InitServer

NextMain == NextLocal \/ NextServer

SpecMain == InitMain /\ [][NextMain]_vars

----------------------------------------------------------------------------
(* Claims about the server role, checked under SpecServer *)

\* the address record the local agent put at the start of its plaintext
Rec == sCli.stream.record

\* the record length the claim gives for the type of rec
ClaimedRecLen(rec) ==
    IF rec[1] = 1 THEN 7 ELSE IF rec[1] = 4 THEN 19 ELSE 4 + rec[2]

WellFormed(rec) ==
    /\ Len(rec) >= 2
    /\ rec[1] \in {1, 3, 4}
    /\ Len(rec) = ClaimedRecLen(rec)

\* the local agent has sent the segment that holds the record
RecordSent == Len(sCli.script) < Len(AgentScript(ConfigKey, sCli.stream))

\* the 16-byte address a host text stands for
To16(h) ==
    IF h.form = "dotted"
    THEN [i \in 1..10 |-> 0] \o <<255, 255>> \o h.bytes
    ELSE h.bytes

\* the number a sequence of decimal digits stands for
RECURSIVE DecimalValue(_)
DecimalValue(ds) ==
    IF ds = <<>> THEN 0
    ELSE (10 * DecimalValue(SubSeq(ds, 1, Len(ds) - 1))) + ds[Len(ds)]

\* C5: of a well-formed record (type 1, 3, 4) at the start of the decrypted
\* stream readTargetHost takes exactly the record (7, 19 or 4+N bytes after
\* the IV) and nothing of the payload, and returns its address with its
\* big-endian port; a record with another type tag fails with the
\* address-type error.
C5_TargetHost ==
    /\ (RecordSent /\ WellFormed(Rec) /\ sHost.err # "pending") =>
        /\ sHost.err = "none"
        /\ sHost.used = BlockSize + ClaimedRecLen(Rec)
        /\ sRd.buf = Rec
        /\ Rec[1] = 1 => (/\ sHost.addr.host.form = "dotted"
                          /\ sHost.addr.host.bytes = SubSeq(Rec, 2, 5))
        /\ Rec[1] = 4 => (/\ sHost.addr.host.form \in {"dotted", "colon"}
                          /\ To16(sHost.addr.host) = SubSeq(Rec, 2, 17))
        /\ Rec[1] = 3 => (/\ sHost.addr.host.form = "name"
                          /\ sHost.addr.host.bytes = SubSeq(Rec, 3, 2 + Rec[2]))
        /\ DecimalValue(sHost.addr.port) =
                (256 * Rec[Len(Rec) - 1]) + Rec[Len(Rec)]
    /\ (RecordSent /\ Rec[1] \notin {1, 3, 4} /\ sHost.err # "pending") =>
        /\ sHost.err = "addrtype"
        /\ sHost.addr = <<>>
        /\ sHost.used = BlockSize + 1

C5_Witness ==
    /\ sPc = "dial"
    /\ sHost.err = "none"
    /\ Rec = <<3, 2, 97, 98, 0, 80>>
    /\ sHost.addr = [host |-> [form |-> "name", bytes |-> <<97, 98>>],
                     port |-> <<8, 0>>]
    /\ Len(sCli.in) = 2

\* handleLocal lines 246-247: the two transfers, the task that runs each,
\* its destination and its source; encRemote is the Conn
LocalRelay ==
    [inline |-> [task |-> "handler", dst |-> "encRemote", src |-> "conn"],
     go     |-> [task |-> "go",      dst |-> "conn",      src |-> "encRemote"]]

\* handleServer lines 304-305: the same; conn is the Conn
ServerRelay ==
    [inline |-> [task |-> "handler", dst |-> "remote", src |-> "conn"],
     go     |-> [task |-> "go",      dst |-> "conn",   src |-> "remote"]]

\* a transfer is inside src.Read, inside dst.Write
InRead(t) == t.pc \in {"read", "iv", "data"}

InWrite(t) == t.pc = "write"

\* the tasks of the local role inside Read, inside Write on connection x;
\* the handler itself writes encRemote at line 242
LReaders(x) ==
    {r.task : r \in {q \in {LocalRelay.inline} : q.src = x /\ InRead(lUp)}
                    \cup {q \in {LocalRelay.go} : q.src = x /\ InRead(lDown)}}

LWriters(x) ==
    {r.task : r \in {q \in {LocalRelay.inline} : q.dst = x /\ InWrite(lUp)}
                    \cup {q \in {LocalRelay.go} : q.dst = x /\ InWrite(lDown)}}
    \cup (IF x = "encRemote" /\ lPc = "writeAddr" THEN {"handler"} ELSE {})

\* the same for the server role; the handler itself reads conn at line 292
SReaders(x) ==
    {r.task : r \in {q \in {ServerRelay.inline} : q.src = x /\ InRead(sUp)}
                    \cup {q \in {ServerRelay.go} : q.src = x /\ InRead(sDown)}}
    \cup (IF x = "conn" /\ sPc = "readTargetHost" THEN {"handler"} ELSE {})

SWriters(x) ==
    {r.task : r \in {q \in {ServerRelay.inline} : q.dst = x /\ InWrite(sUp)}
                    \cup {q \in {ServerRelay.go} : q.dst = x /\ InWrite(sDown)}}

----------------------------------------------------------------------------
(* SpecPool: callers that call Get, GetAtLeast and Put on the bytePool in  *)
(* any order, with the buffers they got from it, with buffers they made    *)
(* themselves, and with buffers they have already put back.  Each call is  *)
(* one step: a select with a default case on the channel.                  *)

Callers == 1..MaxCallers

\* the sizes asked of GetAtLeast
AskSizes == {1, bufSize, bufSize + 1}

\* the lengths of the buffers a caller makes itself and puts
MakeLens == {0, bufSize - 1, bufSize, bufSize + 1}

NoBuf == [id |-> 0, len |-> 0]

InitPool ==
    /\ pool = NewBytePool
    /\ IdleConn /\ IdleLocal /\ IdleServer /\ IdleRun /\ IdleRelay
    /\ pTask = [c \in Callers |-> [held |-> {}]]
    /\ pLast = [op |-> "none", by |-> 0, size |-> 0, b |-> NoBuf,
                before |-> NewBytePool]

\* caller c calls bytePool.Get()
PGet(c) ==
    /\ pool.q # <<>> \/ pool.alloc < MaxAlloc
    /\ LET g == PoolGet(pool)
       IN  /\ pool' = g.pool
           /\ pTask' = [pTask EXCEPT ![c].held = @ \cup {g.b}]
           /\ pLast' = [op |-> "Get", by |-> c, size |-> bufSize, b |-> g.b,
                        before |-> pool]
    /\ UNCHANGED <<varsConn, varsLocal, varsServer, varsRun, varsRelay>>

\* caller c calls bytePool.GetAtLeast(size)
PGetAtLeast(c) ==
    /\ pool.q # <<>> \/ pool.alloc < MaxAlloc
    /\ \E size \in AskSizes :
        LET g == PoolGetAtLeast(pool, size)
        IN  /\ pool' = g.pool
            /\ pTask' = [pTask EXCEPT ![c].held = @ \cup {g.b}]
            /\ pLast' = [op |-> "GetAtLeast", by |-> c, size |-> size,
                         b |-> g.b, before |-> pool]
    /\ UNCHANGED <<varsConn, varsLocal, varsServer, varsRun, varsRelay>>

\* caller c calls bytePool.Put(b) with a buffer it holds, and keeps or
\* gives up its reference to it
PPut(c) ==
    /\ \E b \in pTask[c].held, keep \in BOOLEAN :
        /\ pool' = PoolPut(pool, b)
        /\ pTask' = [pTask EXCEPT ![c].held = IF keep THEN @ ELSE @ \ {b}]
        /\ pLast' = [op |-> "Put", by |-> c, size |-> b.len, b |-> b,
                     before |-> pool]
    /\ UNCHANGED <<varsConn, varsLocal, varsServer, varsRun, varsRelay>>

\* caller c calls bytePool.Put(make([]byte, L))
PPutMade(c) ==
    /\ pool.alloc < MaxAlloc
    /\ \E L \in MakeLens :
        LET m == PoolMake(pool, L)
        IN  /\ pool' = PoolPut(m.pool, m.b)
            /\ pLast' = [op |-> "Put", by |-> c, size |-> L, b |-> m.b,
                         before |-> m.pool]
    /\ UNCHANGED <<pTask, varsConn, varsLocal, varsServer, varsRun, varsRelay>>

NextPool ==
    \E c \in Callers : PGet(c) \/ PGetAtLeast(c) \/ PPut(c) \/ PPutMade(c)

SpecPool == InitPool /\ [][NextPool]_vars

\* C13: after any sequence of Get, GetAtLeast and Put calls the pool holds
\* at most poolSize buffers, each of length bufSize; a Put of a buffer of
\* another length or into a full pool leaves the pool as it was; a Get on
\* the empty pool returns a buffer of length bufSize made for it; and every
\* call can be made, and returns, in every state.
C13_PoolBounded ==
    /\ Len(pool.q) <= poolSize
    /\ \A i \in 1..Len(pool.q) : pool.q[i].len = bufSize
    /\ pLast.op = "Put" =>
            IF pLast.b.len # bufSize \/ Len(pLast.before.q) = poolSize
            THEN pool.q = pLast.before.q
            ELSE pool.q = Append(pLast.before.q, pLast.b)
    /\ (pLast.op = "Get" /\ pLast.before.q = <<>>) =>
            /\ pLast.b.len = bufSize
            /\ pLast.b.id = pLast.before.alloc + 1
            /\ pool.q = <<>>
    /\ (pLast.op = "Get" /\ pLast.before.q # <<>>) =>
            (pLast.b = Head(pLast.before.q) /\ pool.q = Tail(pLast.before.q))
    /\ pLast.op = "GetAtLeast" =>
            /\ pLast.b.len >= pLast.size
            /\ pLast.size > bufSize => pool.q = pLast.before.q
    /\ \A c \in Callers :
            /\ pool.alloc < MaxAlloc =>
                    (ENABLED PGet(c) /\ ENABLED PGetAtLeast(c) /\ ENABLED PPutMade(c))
            /\ pTask[c].held # {} => ENABLED PPut(c)

C13_Witness ==
    /\ Len(pool.q) = poolSize
    /\ pLast.op = "Put" /\ pLast.b.len = bufSize
    /\ Len(pLast.before.q) = poolSize
    /\ pool.q = pLast.before.q

----------------------------------------------------------------------------
(* SpecUse: the callers of the bytePool in the program.  Each task is one  *)
(* relay direction (transfer): it gets its buffer, loops over read and     *)
(* write, and puts the buffer back when it returns.  One side of every     *)
(* direction is an encrypted Conn, whose Read or Write gets a second       *)
(* buffer and puts it back when it returns.  A task keeps its references   *)
(* (buf, inner) after the Put; held is what it has got and not yet put.    *)

Tasks == 1..MaxTasks

\* "rd": the source is the encrypted Conn; "wr": the destination is
Kinds == {"rd", "wr"}

NewTask(kind) ==
    [kind |-> kind, pc |-> "start", buf |-> NoBuf, inner |-> NoBuf,
     held |-> {}, n |-> 0, err |-> FALSE, rounds |-> 0]

InitUse ==
    /\ pool = NewBytePool
    /\ IdleConn /\ IdleLocal /\ IdleServer /\ IdleRun /\ IdleRelay
    /\ pTask \in [Tasks -> {NewTask(k) : k \in Kinds}]
    /\ pLast = [dropped |-> {}]

\* the fixed-size buffers a Put in state bp discards because the pool is full
Discarded(bp, b) ==
    IF b.len = bufSize /\ Len(bp.q) >= poolSize THEN {b.id} ELSE {}

\* what one read of a relay direction can return in round r
ReadResults(r) ==
    IF r >= MaxRounds THEN {[n |-> 0, err |-> TRUE]}
    ELSE {[n |-> 0, err |-> TRUE], [n |-> 1, err |-> FALSE],
          [n |-> bufSize, err |-> FALSE], [n |-> 1, err |-> TRUE]}

\* transfer: buf := bytePool.Get()
TGet(t) ==
    /\ pTask[t].pc = "start"
    /\ LET g == PoolGet(pool)
       IN  /\ pool' = g.pool
           /\ pTask' = [pTask EXCEPT ![t].buf = g.b, ![t].held = @ \cup {g.b},
                                     ![t].pc = "loop"]
    /\ UNCHANGED <<pLast, varsConn, varsLocal, varsServer, varsRun, varsRelay>>

\* Conn.Read(buf): buf := bytePool.GetAtLeast(len(b))
CRGet(t) ==
    /\ pTask[t].pc = "loop" /\ pTask[t].kind = "rd"
    /\ LET g == PoolGetAtLeast(pool, pTask[t].buf.len)
       IN  /\ pool' = g.pool
           /\ pTask' = [pTask EXCEPT ![t].inner = g.b, ![t].held = @ \cup {g.b},
                                     ![t].pc = "c_read"]
    /\ UNCHANGED <<pLast, varsConn, varsLocal, varsServer, varsRun, varsRelay>>

\* Conn.Read: the transport read into encBytes and the decryption into b
CRRead(t) ==
    /\ pTask[t].pc = "c_read"
    /\ \E r \in ReadResults(pTask[t].rounds) :
        pTask' = [pTask EXCEPT ![t].n = r.n, ![t].err = r.err,
                               ![t].rounds = @ + 1, ![t].pc = "c_put"]
    /\ UNCHANGED <<pool, pLast, varsConn, varsLocal, varsServer, varsRun, varsRelay>>

\* Conn.Read returns: the deferred bytePool.Put(buf)
CRPut(t) ==
    /\ pTask[t].pc = "c_put"
    /\ pool' = PoolPut(pool, pTask[t].inner)
    /\ pLast' = [pLast EXCEPT !.dropped = @ \cup Discarded(pool, pTask[t].inner)]
    /\ pTask' = [pTask EXCEPT ![t].held = @ \ {pTask[t].inner},
                              ![t].pc = IF pTask[t].n > 0 THEN "t_write"
                                        ELSE IF pTask[t].err THEN "t_put"
                                        ELSE "loop"]
    /\ UNCHANGED <<varsConn, varsLocal, varsServer, varsRun, varsRelay>>

\* transfer: dst.Write(buf[0:n]) on a plain connection
TWrite(t) ==
    /\ pTask[t].pc = "t_write"
    /\ \E werr \in BOOLEAN :
        pTask' = [pTask EXCEPT ![t].pc = IF werr \/ pTask[t].err THEN "t_put"
                                        ELSE "loop"]
    /\ UNCHANGED <<pool, pLast, varsConn, varsLocal, varsServer, varsRun, varsRelay>>

\* transfer: src.Read(buf) on a plain connection
TRead(t) ==
    /\ pTask[t].pc = "loop" /\ pTask[t].kind = "wr"
    /\ \E r \in ReadResults(pTask[t].rounds) :
        pTask' = [pTask EXCEPT ![t].n = r.n, ![t].err = r.err,
                               ![t].rounds = @ + 1,
                               ![t].pc = IF r.n > 0 THEN "w_get"
                                        ELSE IF r.err THEN "t_put"
                                        ELSE "loop"]
    /\ UNCHANGED <<pool, pLast, varsConn, varsLocal, varsServer, varsRun, varsRelay>>

\* Conn.Write(buf[0:n]): buf := bytePool.GetAtLeast(len(iv) + len(b)); the
\* first Write of a Conn carries the IV
CWGet(t) ==
    /\ pTask[t].pc = "w_get"
    /\ LET ivlen == IF pTask[t].rounds = 1 THEN BlockSize ELSE 0
           g == PoolGetAtLeast(pool, ivlen + pTask[t].n)
       IN  /\ pool' = g.pool
           /\ pTask' = [pTask EXCEPT ![t].inner = g.b, ![t].held = @ \cup {g.b},
                                     ![t].pc = "w_enc"]
    /\ UNCHANGED <<pLast, varsConn, varsLocal, varsServer, varsRun, varsRelay>>

\* Conn.Write: copy of the IV, encryption into encBytes, transport write
CWWrite(t) ==
    /\ pTask[t].pc = "w_enc"
    /\ \E werr \in BOOLEAN :
        pTask' = [pTask EXCEPT ![t].err = @ \/ werr, ![t].pc = "w_put"]
    /\ UNCHANGED <<pool, pLast, varsConn, varsLocal, varsServer, varsRun, varsRelay>>

\* Conn.Write returns: the deferred bytePool.Put(buf)
CWPut(t) ==
    /\ pTask[t].pc = "w_put"
    /\ pool' = PoolPut(pool, pTask[t].inner)
    /\ pLast' = [pLast EXCEPT !.dropped = @ \cup Discarded(pool, pTask[t].inner)]
    /\ pTask' = [pTask EXCEPT ![t].held = @ \ {pTask[t].inner},
                              ![t].pc = IF pTask[t].err THEN "t_put" ELSE "loop"]
    /\ UNCHANGED <<varsConn, varsLocal, varsServer, varsRun, varsRelay>>

\* transfer returns: the deferred bytePool.Put(buf)
TPut(t) ==
    /\ pTask[t].pc = "t_put"
    /\ pool' = PoolPut(pool, pTask[t].buf)
    /\ pLast' = [pLast EXCEPT !.dropped = @ \cup Discarded(pool, pTask[t].buf)]
    /\ pTask' = [pTask EXCEPT ![t].held = @ \ {pTask[t].buf}, ![t].pc = "done"]
    /\ UNCHANGED <<varsConn, varsLocal, varsServer, varsRun, varsRelay>>

NextUse ==
    \E t \in Tasks :
        \/ TGet(t) \/ CRGet(t) \/ CRRead(t) \/ CRPut(t) \/ TWrite(t)
        \/ TRead(t) \/ CWGet(t) \/ CWWrite(t) \/ CWPut(t) \/ TPut(t)

SpecUse == InitUse /\ [][NextUse]_vars

\* the buffers the next step of task t reads or writes
UsesAt(t) ==
    CASE pTask[t].pc = "c_read" -> {pTask[t].inner, pTask[t].buf}
      [] pTask[t].pc = "t_write" -> {pTask[t].buf}
      [] pTask[t].pc = "loop" /\ pTask[t].kind = "wr" -> {pTask[t].buf}
      [] pTask[t].pc = "w_enc" -> {pTask[t].inner, pTask[t].buf}
      [] OTHER -> {}

\* the tasks that hold the fixed-size buffer id
Holders(id) == {t \in Tasks : \E b \in pTask[t].held : b.id = id}

\* the places of the pool's channel that hold the fixed-size buffer id
Places(id) == {i \in 1..Len(pool.q) : pool.q[i].id = id}

\* C14: with several relay directions running concurrently, every
\* fixed-size buffer is held by exactly one task or is in the pool exactly
\* once (or was discarded by a Put into the full pool and is nowhere); no
\* buffer has two holders, none is twice in the pool, and every buffer a
\* task is about to use is one it has got and not yet put back.
C14_ExclusiveBuffers ==
    /\ \A id \in 1..pool.alloc :
        /\ Cardinality(Holders(id)) + Cardinality(Places(id)) <= 1
        /\ Cardinality(Holders(id)) + Cardinality(Places(id)) = 0
                => id \in pLast.dropped
        /\ id \in pLast.dropped => (Holders(id) = {} /\ Places(id) = {})
    /\ \A t \in Tasks :
        /\ UsesAt(t) \subseteq pTask[t].held
        /\ pTask[t].pc = "done" => pTask[t].held = {}

\* a direction is in the middle of Conn.Read or Conn.Write in its last round,
\* holding a buffer that went through the pool, after another direction
\* returned and a buffer was discarded
C14_Witness ==
    /\ pLast.dropped # {}
    /\ \E t \in Tasks : /\ pTask[t].pc \in {"c_read", "w_enc"}
                        /\ pTask[t].inner.id # 0
                        /\ pTask[t].inner.id < pool.alloc
                        /\ pTask[t].rounds = MaxRounds
    /\ \E t \in Tasks : pTask[t].pc = "done"

----------------------------------------------------------------------------
(* SpecRun: the accept loop of run and the handlers it dispatches.         *)
(* rConn is the table of the connections accepted and dialed, with who has *)
(* written to and closed each; rSess holds the local variables of each     *)
(* handler (conn, remote) and its position.  A handler is reduced to its   *)
(* steps that can fail and its operations on connections.                  *)

Roles == {"local", "server"}

NewConnEntry == [owner |-> 0, closedBy |-> {}, writtenBy |-> {}]

NewSession(conn, errs) ==
    [conn |-> conn, remote |-> 0, pc |-> "front", failed |-> FALSE,
     errsBefore |-> errs]

\* the accept loop after an Accept that returned an error: continue
AfterAcceptErr_exit == "exited"

AfterAcceptErr == "accept"

\* the errors so far: failed Accepts and failed handlers
ErrorsSoFar ==
    rLoop.errs + Cardinality({s \in 1..Len(rSess) : rSess[s].failed})

InitRun ==
    /\ pool = NewBytePool
    /\ IdleConn /\ IdleLocal /\ IdleServer /\ IdlePool /\ IdleRelay
    /\ \E role \in Roles :
        rLoop = [role |-> role, pc |-> "accept", conn |-> 0, tries |-> 0,
                 errs |-> 0]
    /\ rConn = <<>>
    /\ rSess = <<>>

\* conn, err := ln.Accept()
RAccept ==
    /\ rLoop.pc = "accept"
    /\ rLoop.tries < MaxAccepts
    /\ \/ /\ rConn' = Append(rConn, NewConnEntry)
          /\ rLoop' = [rLoop EXCEPT !.pc = "go", !.conn = Len(rConn) + 1,
                                    !.tries = @ + 1]
       \/ /\ rLoop' = [rLoop EXCEPT !.pc = AfterAcceptErr, !.errs = @ + 1,
                                    !.tries = @ + 1]
          /\ UNCHANGED rConn
    /\ UNCHANGED <<rSess, pool, varsPool, varsRelay, varsConn, varsLocal, varsServer>>

\* go handler(conn)
RDispatch ==
    /\ rLoop.pc = "go"
    /\ rSess' = Append(rSess, NewSession(rLoop.conn, ErrorsSoFar))
    /\ rConn' = [rConn EXCEPT ![rLoop.conn].owner = Len(rSess) + 1]
    /\ rLoop' = [rLoop EXCEPT !.pc = "accept"]
    /\ UNCHANGED <<pool, varsPool, varsRelay, varsConn, varsLocal, varsServer>>

\* the handler's work on its own connection before it dials: handsake,
\* readRawAddr and the reply (handleLocal), readTargetHost (handleServer)
HFront(s) ==
    /\ rSess[s].pc = "front"
    /\ \E ok \in BOOLEAN, wrote \in BOOLEAN :
        /\ wrote => rLoop.role = "local"
        /\ ok /\ rLoop.role = "local" => wrote
        /\ rConn' = IF wrote
                    THEN [rConn EXCEPT ![rSess[s].conn].writtenBy = @ \cup {s}]
                    ELSE rConn
        /\ rSess' = [rSess EXCEPT ![s].pc = IF ok THEN "dial" ELSE "ret",
                                  ![s].failed = ~ok]
    /\ UNCHANGED <<rLoop, pool, varsPool, varsRelay, varsConn, varsLocal, varsServer>>

\* remote, err := net.Dial(...)
HDial(s) ==
    /\ rSess[s].pc = "dial"
    /\ \/ /\ rConn' = Append(rConn, [NewConnEntry EXCEPT !.owner = s])
          /\ rSess' = [rSess EXCEPT ![s].remote = Len(rConn) + 1,
                                    ![s].pc = IF rLoop.role = "local"
                                              THEN "addr" ELSE "relay"]
       \/ /\ rSess' = [rSess EXCEPT ![s].pc = "ret", ![s].failed = TRUE]
          /\ UNCHANGED rConn
    /\ UNCHANGED <<rLoop, pool, varsPool, varsRelay, varsConn, varsLocal, varsServer>>

\* handleLocal: encRemote.Write(tgtAddr)
HAddr(s) ==
    /\ rSess[s].pc = "addr"
    /\ \E ok \in BOOLEAN :
        /\ rConn' = IF ok
                    THEN [rConn EXCEPT ![rSess[s].remote].writtenBy = @ \cup {s}]
                    ELSE rConn
        /\ rSess' = [rSess EXCEPT ![s].pc = IF ok THEN "relay" ELSE "ret",
                                  ![s].failed = ~ok]
    /\ UNCHANGED <<rLoop, pool, varsPool, varsRelay, varsConn, varsLocal, varsServer>>

\* the two transfers of the session: a write to one of its connections
HRelay(s) ==
    /\ rSess[s].pc = "relay"
    /\ \E c \in {rSess[s].conn, rSess[s].remote} :
        /\ s \notin rConn[c].writtenBy
        /\ rConn' = [rConn EXCEPT ![c].writtenBy = @ \cup {s}]
    /\ UNCHANGED <<rLoop, rSess, pool, varsPool, varsRelay, varsConn, varsLocal, varsServer>>

\* the inline transfer returns, after a read or write error
HRelayEnd(s) ==
    /\ rSess[s].pc = "relay"
    /\ rSess' = [rSess EXCEPT ![s].pc = "ret", ![s].failed = TRUE]
    /\ UNCHANGED <<rLoop, rConn, pool, varsPool, varsRelay, varsConn, varsLocal, varsServer>>

\* the handler returns: deferred remote.Close() and conn.Close()
HReturn(s) ==
    /\ rSess[s].pc = "ret"
    /\ rConn' = [c \in 1..Len(rConn) |->
                    IF c \in {rSess[s].conn, rSess[s].remote}
                    THEN [rConn[c] EXCEPT !.closedBy = @ \cup {s}]
                    ELSE rConn[c]]
    /\ rSess' = [rSess EXCEPT ![s].pc = "done"]
    /\ UNCHANGED <<rLoop, pool, varsPool, varsRelay, varsConn, varsLocal, varsServer>>

NextRun ==
    \/ RAccept
    \/ RDispatch
    \/ \E s \in 1..Len(rSess) :
        HFront(s) \/ HDial(s) \/ HAddr(s) \/ HRelay(s) \/ HRelayEnd(s) \/ HReturn(s)

SpecRun == InitRun /\ [][NextRun]_vars

\* C12: whatever accept errors and handler errors have happened, the
\* accept loop has not stopped and can accept again, every accepted
\* connection has been or is about to be dispatched to a handler of its
\* own, and every connection was written to and closed by no session
\* other than the one it belongs to.
C12_ErrorsIsolated ==
    /\ rLoop.pc \in {"accept", "go"}
    /\ (rLoop.pc = "accept" /\ rLoop.tries < MaxAccepts) => ENABLED RAccept
    /\ rLoop.pc = "go" => ENABLED RDispatch
    /\ \A c \in 1..Len(rConn) :
        /\ rConn[c].owner = 0 => (rLoop.pc = "go" /\ rLoop.conn = c)
        /\ rConn[c].closedBy \subseteq {rConn[c].owner}
        /\ rConn[c].writtenBy \subseteq {rConn[c].owner}
    /\ \A s \in 1..Len(rSess) :
        /\ rConn[rSess[s].conn].owner = s
        /\ \A r \in 1..Len(rSess) : rSess[r].conn = rSess[s].conn => r = s
        /\ rSess[s].pc \in {"front", "dial", "addr", "relay"}
                => rConn[rSess[s].conn].closedBy = {}
        /\ rSess[s].pc \in {"addr", "relay"}
                => rConn[rSess[s].remote].closedBy = {}

\* after a failed Accept and a failed handler that has closed its
\* connection, a later session is relaying on its two open connections
C12_Witness ==
    /\ rLoop.errs >= 1
    /\ \E s1, s2 \in 1..Len(rSess) :
        /\ rSess[s1].pc = "done" /\ rSess[s1].failed
        /\ rSess[s2].errsBefore >= 2
        /\ rSess[s2].pc = "relay"
        /\ rConn[rSess[s2].conn].writtenBy = {s2}
        /\ rConn[rSess[s2].remote].writtenBy = {s2}

----------------------------------------------------------------------------
(* SpecRelay: the two relay directions of one session with time.  tCli is  *)
(* the accepted connection and tRem the dialed one; tIn is the direction   *)
(* the handler runs inline (source tCli, destination tRem) and tGo the one *)
(* it runs on its own goroutine (source tRem, destination tCli).  Tick is  *)
(* one unit of time; wait is the time a direction has spent in its current *)
(* or last transport call and dl the time left to its read deadline.       *)

Dirs == {"in", "go"}

\* wait is counted up to here
MaxWait == timeout + 1

NewEndpoint == [inq |-> 0, eof |-> FALSE, closed |-> FALSE, stalled |-> FALSE]

NewDirection == [pc |-> "set", n |-> 0, rerr |-> "none", wait |-> 0, dl |-> 0]

Dir(d) == IF d = "in" THEN tIn ELSE tGo

SrcOf(d) == IF d = "in" THEN tCli ELSE tRem

DstOf(d) == IF d = "in" THEN tRem ELSE tCli

SetDir(d, v) ==
    IF d = "in" THEN tIn' = v /\ tGo' = tGo ELSE tGo' = v /\ tIn' = tIn

SetSrc(d, v) ==
    IF d = "in" THEN tCli' = v /\ tRem' = tRem ELSE tRem' = v /\ tCli' = tCli

\* the position in the loop of transfer after a step
LoopPc(p) == IF p = "read" THEN "set" ELSE p

\* a read without a deadline
ReadExpired_never(t) == FALSE

\* the read deadline set by SetReadDeadline has passed
ReadExpired(t) == t.dl = 0

\* what a transport read on connection c by direction t can return now
ReadOutcomes(c, t) ==
    IF c.closed THEN {[n |-> 0, err |-> "closed"]}
    ELSE (IF c.inq > 0 THEN {[n |-> 1, err |-> "none"]} ELSE {})
         \cup (IF c.inq = 0 /\ c.eof THEN {[n |-> 0, err |-> "EOF"]} ELSE {})
         \cup (IF ReadExpired(t) /\ ~(c.inq = 0 /\ c.eof)
               THEN {[n |-> 0, err |-> "timeout"]} ELSE {})

InitRelay ==
    /\ pool = NewBytePool
    /\ IdleConn /\ IdleLocal /\ IdleServer /\ IdlePool /\ IdleRun
    /\ tCli = NewEndpoint /\ tRem = NewEndpoint
    /\ tIn = NewDirection /\ tGo = NewDirection

\* src.SetReadDeadline(time.Now().Add(timeout)), and the Read is issued
TSetDeadline(d) ==
    /\ Dir(d).pc = "set"
    /\ SetDir(d, [Dir(d) EXCEPT !.pc = "read", !.dl = timeout, !.wait = 0])
    /\ UNCHANGED <<tCli, tRem, pool, varsPool, varsRun, varsConn, varsLocal, varsServer>>

\* n, err := src.Read(buf) returns
TReadRet(d) ==
    /\ Dir(d).pc = "read"
    /\ \E r \in ReadOutcomes(SrcOf(d), Dir(d)) :
        /\ SetDir(d, [Dir(d) EXCEPT !.n = r.n, !.rerr = r.err,
                                    !.pc = LoopPc(AfterRead(r.n, r.err)),
                                    !.wait = IF r.n > 0 THEN 0 ELSE @])
        /\ SetSrc(d, [SrcOf(d) EXCEPT !.inq = @ - r.n])
    /\ UNCHANGED <<pool, varsPool, varsRun, varsConn, varsLocal, varsServer>>

\* dst.Write(buf[0:n]) returns: at once with an error on a closed
\* connection, and otherwise when the peer takes the data
TWriteRet(d) ==
    /\ Dir(d).pc = "write"
    /\ DstOf(d).closed \/ ~DstOf(d).stalled
    /\ SetDir(d, [Dir(d) EXCEPT !.n = 0,
                                !.pc = LoopPc(AfterWrite(DstOf(d).closed,
                                                         Dir(d).rerr))])
    /\ UNCHANGED <<tCli, tRem, pool, varsPool, varsRun, varsConn, varsLocal, varsServer>>

\* transfer returns; the return of the inline one is the return of the
\* handler, whose deferred calls close the two connections
TEnd(d) ==
    /\ Dir(d).pc = "end"
    /\ SetDir(d, [Dir(d) EXCEPT !.pc = "done"])
    /\ IF d = "in"
       THEN /\ tCli' = [tCli EXCEPT !.closed = TRUE]
            /\ tRem' = [tRem EXCEPT !.closed = TRUE]
       ELSE UNCHANGED <<tCli, tRem>>
    /\ UNCHANGED <<pool, varsPool, varsRun, varsConn, varsLocal, varsServer>>

\* a direction after one unit of time
Later(t) ==
    IF t.pc \in {"read", "write"}
    THEN [t EXCEPT !.wait = IF @ < MaxWait THEN @ + 1 ELSE @,
                   !.dl = IF t.pc = "read" /\ @ > 0 THEN @ - 1 ELSE @]
    ELSE t

\* one unit of time passes; a read whose deadline has passed returns first
Tick ==
    /\ \E d \in Dirs : Dir(d).pc \in {"read", "write"}
    /\ \A d \in Dirs : ~(Dir(d).pc = "read" /\ ReadExpired(Dir(d)))
    /\ tIn' = Later(tIn)
    /\ tGo' = Later(tGo)
    /\ UNCHANGED <<tCli, tRem, pool, varsPool, varsRun, varsConn, varsLocal, varsServer>>

\* the peer of connection d's source sends a chunk
PeerSend(d) ==
    /\ ~SrcOf(d).closed /\ ~SrcOf(d).eof
    /\ SrcOf(d).inq < MaxQueue
    /\ SetSrc(d, [SrcOf(d) EXCEPT !.inq = @ + 1])
    /\ UNCHANGED <<tIn, tGo, pool, varsPool, varsRun, varsConn, varsLocal, varsServer>>

\* the peer closes its side
PeerClose(d) ==
    /\ ~SrcOf(d).closed /\ ~SrcOf(d).eof
    /\ SetSrc(d, [SrcOf(d) EXCEPT !.eof = TRUE])
    /\ UNCHANGED <<tIn, tGo, pool, varsPool, varsRun, varsConn, varsLocal, varsServer>>

\* the peer stops, or starts again, to take what is written to it
PeerStall(d) ==
    /\ ~SrcOf(d).closed
    /\ SetSrc(d, [SrcOf(d) EXCEPT !.stalled = ~@])
    /\ UNCHANGED <<tIn, tGo, pool, varsPool, varsRun, varsConn, varsLocal, varsServer>>

\* the steps of direction d
DirStep(d) == TSetDeadline(d) \/ TReadRet(d) \/ TWriteRet(d) \/ TEnd(d)

NextRelay ==
    \/ \E d \in Dirs : DirStep(d)
    \/ Tick
    \/ \E d \in Dirs : PeerSend(d) \/ PeerClose(d) \/ PeerStall(d)

SpecRelay == InitRelay /\ [][NextRelay]_vars

\* the goroutines of the two directions are scheduled fairly and time passes
FairRelay ==
    /\ WF_vars(DirStep("in"))
    /\ WF_vars(DirStep("go"))
    /\ WF_vars(Tick)

SpecRelayFair == InitRelay /\ [][NextRelay]_vars /\ FairRelay

\* both directions have returned and both connections are closed
SessionOver ==
    /\ tIn.pc = "done" /\ tGo.pc = "done"
    /\ tCli.closed /\ tRem.closed

\* C11: once the read of a direction has run into the idle timeout, be it
\* the inline direction or the one on its own goroutine, the session
\* comes to the state where both directions have returned and both
\* connections are closed.
C11_IdleEndsSession ==
    /\ (tIn.rerr = "timeout") ~> SessionOver
    /\ (tGo.rerr = "timeout") ~> SessionOver

\* C18 as stated: a direction is never in one transport call, read or
\* write, for longer than the idle timeout.
C18_Original ==
    \A d \in Dirs : Dir(d).pc \in {"read", "write"} => Dir(d).wait <= timeout

\* C18: a direction is never in one transport read for longer than the
\* idle timeout, and a read that ended with the timeout error took exactly
\* the idle timeout.
C18_ReadBounded ==
    \A d \in Dirs :
        /\ Dir(d).pc = "read" => Dir(d).wait <= timeout
        /\ Dir(d).pc = "read" => Dir(d).wait + Dir(d).dl = timeout
        /\ Dir(d).rerr = "timeout" => Dir(d).wait = timeout

\* one direction's read has ended with the timeout error while the other
\* is waiting in a read
C18_Witness ==
    \E d, e \in Dirs :
        /\ Dir(d).rerr = "timeout" /\ Dir(d).wait = timeout
        /\ Dir(e).pc = "read" /\ Dir(e).wait > 0

----------------------------------------------------------------------------
(* Claims about the relay, checked under SpecMain *)

\* the plaintext of what reached the peer of a Conn: the wire carries the IV
\* and then the ciphertext
WirePlain(key, wire) ==
    IF Len(wire) <= BlockSize THEN <<>>
    ELSE CFBWhole(key, Take(wire, BlockSize), TRUE, Drop(wire, BlockSize))

\* what each relay direction has written to its destination
UpDst == Drop(WirePlain(lEnc.key, lTun.out), Len(lRq.addr))

DownDst == Drop(lCli.out, Len(MethodReply) + Len(SuccessReply))

SUpDst == sTgt.out

SDownDst == WirePlain(sEnc.key, sCli.out)

\* one direction, t its transfer and dst what it has written: dst is a
\* prefix of what t read; while no write has failed, all that was read is
\* written before the next read and before the direction stops
InOrder(t, dst) ==
    t.pc # "off" =>
        /\ IsPrefix(dst, t.read)
        /\ t.pc = "write" => dst \o t.data = t.read
        /\ (t.pc # "write" /\ ~t.werr) => dst = t.read

\* C15: in each relay direction of both roles the bytes written to the
\* destination are a prefix of the bytes read from the source, in order;
\* data that a read returns together with an error or the end of the stream
\* is written before the direction stops.
C15_RelayOrder ==
    /\ InOrder(lUp, UpDst)
    /\ InOrder(lDown, DownDst)
    /\ InOrder(sUp, SUpDst)
    /\ InOrder(sDown, SDownDst)

C15_Witness ==
    /\ sDown.pc = "done" /\ sDown.rerr = "EOF" /\ sDown.n = Len(TargetPlain)
    /\ ~sDown.werr
    /\ SDownDst = TargetPlain

\* C16: on the Encrypted Connection of either role never two tasks are
\* inside Read and never two inside Write; no relay direction has started
\* before the handler's first Write (local role) or first Read (server role)
\* on it has returned; one direction has it as source and one as
\* destination.
C16_SingleDriver ==
    /\ Cardinality(LReaders("encRemote")) <= 1
    /\ Cardinality(LWriters("encRemote")) <= 1
    /\ Cardinality(SReaders("conn")) <= 1
    /\ Cardinality(SWriters("conn")) <= 1
    /\ (lUp.pc # "off" \/ lDown.pc # "off") =>
            (lPc \in {"relay", "done"} /\ lTun.calls >= 1)
    /\ (sUp.pc # "off" \/ sDown.pc # "off") =>
            (sPc \in {"relay", "done"} /\ sHost.err = "none")
    /\ Cardinality({r \in {LocalRelay.inline, LocalRelay.go} : r.src = "encRemote"}) = 1
    /\ Cardinality({r \in {LocalRelay.inline, LocalRelay.go} : r.dst = "encRemote"}) = 1
    /\ Cardinality({r \in {ServerRelay.inline, ServerRelay.go} : r.src = "conn"}) = 1
    /\ Cardinality({r \in {ServerRelay.inline, ServerRelay.go} : r.dst = "conn"}) = 1

C16_Witness ==
    /\ lUp.pc = "write" /\ lDown.pc = "data"
    /\ LWriters("encRemote") = {"handler"} /\ LReaders("encRemote") = {"go"}

\* C19: once a Write on the Encrypted Connection has returned an error, no
\* further Write is called on it: the direction writing to it has stopped
\* or is stopping, and a local handler whose own Write failed has returned.
C19_WriteErrorFatal ==
    [][ /\ lTun.werr =>
            /\ lTun'.calls = lTun.calls
            /\ ~InWrite(lUp)
            /\ lUp.pc = "off" => lPc = "done"
        /\ sCli.werr =>
            /\ sCli'.calls = sCli.calls
            /\ ~InWrite(sDown)
      ]_vars

C19_Witness ==
    /\ lTun.werr /\ lTun.calls = 2
    /\ Len(lTun.out) > Len(lTun.handed[1])
    /\ lTun.out # TunHanded
    /\ lUp.pc = "done" /\ lUp.read # PayloadSent

\* the inline transfer of each role is running
LInline == lUp.pc \in {"read", "write", "end"}

SInline == sUp.pc \in {"read", "write", "end"}

\* C20: a role handler that has returned, by whichever path, has closed the
\* accepted connection and, if the dial succeeded, the dialed one; while
\* its inline transfer runs it has closed neither.
C20_ClosedOnReturn ==
    /\ lPc = "done" => (lCli.closed /\ (lDial = "ok" => lTun.closed))
    /\ sPc = "done" => (sCli.closed /\ (sDial = "ok" => sTgt.closed))
    /\ LInline => (lPc = "relay" /\ ~lCli.closed /\ ~lTun.closed)
    /\ SInline => (sPc = "relay" /\ ~sCli.closed /\ ~sTgt.closed)

C20_Witness ==
    /\ lPc = "done" /\ lUp.pc = "done" /\ lUp.rerr = "timeout"
    /\ lCli.closed /\ lTun.closed

====
